---- MODULE Spec2Model ----
(***************************************************************************)
(* Deployment pipeline of the hosting platform: the deployments table of   *)
(* the record store, the DeploymentQueue scheduler                         *)
(* (src/services/deploymentQueue.js) and the DeploymentService executor    *)
(* (src/services/deployment.js).  Every await of a store operation is one  *)
(* step: the operation lands on the store and the synchronous code up to   *)
(* the next await runs with it.  Un-awaited tasks (saveBuildLog) and       *)
(* concurrent requests (retry, cancel) are kept in bags and take their     *)
(* steps in any order.                                                      *)
(*                                                                         *)
(* Spec       one deployment, build log saves included                     *)
(* SpecRetry  one deployment that is retried more than once                *)
(* SpecStatus several deployments of a project                             *)
(* SpecBatch  more deployments than one scan takes                         *)
(* SpecFifo   two deployments that fail and are retried                    *)
(* SpecLog    one build whose log lines are saved concurrently             *)
(* SpecHook   one webhook request (src/routes/webhooks.js) against a       *)
(*            table of two projects                                        *)
(* SpecCleanup  cleanupOldDeployments beside a retry                       *)
(* SpecDelete   the creation paths of DeploymentQueue beside deleteProject *)
(* SpecCreate   every handler that creates a deployment record             *)
(* SpecSite     the pipeline on a working tree of any content, its stages  *)
(*              recorded                                                   *)
(* SpecOutput   one build, every log line of which can be saved            *)
(* SpecLive     three deployments under fair scheduling                    *)
(* SpecHang     builds whose subprocess may never exit, fair scheduling    *)
(* SpecPayload  one webhook request whose payload may lack fields          *)
(* SpecScan     scans whose query can fail and whose dispatch can throw    *)
(* SpecRestart  builds across a restart of the process, fair scheduling    *)
(* SpecTimer    the scheduler with its interval handles                    *)
(* SpecSerial   deployments of two projects that fail and are retried      *)
(* SpecSecond   the DeploymentService of src/unnamed/part_004, whose       *)
(*              processQueue is defined twice, fair scheduling             *)
(*                                                                         *)
(* But for SpecSite, projects have a repository, a package.json, a build   *)
(* command and an output directory; their subprocesses print nothing: each *)
(* stage emits the one log line buildAndDeploy emits for it.               *)
(***************************************************************************)
EXTENDS Naturals, Integers, Sequences, FiniteSets, Bags, TLC

(* ------------------------------ bounds --------------------------------- *)
NumDeps == 6            \* size of the id space of the deployments table
NumProjects == 2        \* size of the id space of the projects table
SoloProjects == 1       \* all but SpecHook: project rows
MaxCalls == 1           \* retry / cancel requests in flight at once
LogDeps == 1            \* Spec: deployments created
LogRetries == 1         \* Spec: retry requests that are accepted
LogSaves == 1           \* Spec: saveBuildLog tasks whose read succeeds
RetryDeps == 1          \* SpecRetry: deployments created
RetryRetries == 2       \* SpecRetry: retry requests that are accepted
StatusDeps == 2         \* SpecStatus: deployments created
StatusRetries == 1      \* SpecStatus: retry requests that are accepted
BatchDeps == 6          \* SpecBatch: deployments created
SaveDeps == 1           \* SpecLog: deployments created
SaveSaves == 2          \* SpecLog: saveBuildLog tasks whose read succeeds
HookDeps == 4           \* SpecHook: deployments created
PayloadDeps == 3        \* SpecPayload: deployments created
PayloadProjects == 2    \* SpecPayload: project rows
HookProjects == 2       \* SpecHook: project rows
MaxHooks == 1           \* SpecHook: webhook requests received
MaxChanges == 2         \* changes of a Bitbucket push payload
FifoDeps == 2           \* SpecFifo: deployments created
FifoRetries == 3        \* SpecFifo: retry requests that are accepted
CleanDeps == 2          \* SpecCleanup: deployments created
CleanRetries == 1       \* SpecCleanup: retry requests that are accepted
MaxCleanups == 1        \* SpecCleanup: calls of cleanupOldDeployments
DeleteDeps == 3         \* SpecDelete: deployments created
DeleteProjects == 2     \* SpecDelete: project rows
DeleteHooks == 1        \* SpecDelete: webhook requests received
CreateDeps == 2         \* SpecCreate: deployments created
SiteDeps == 2           \* SpecSite: deployments created
OutputDeps == 1         \* SpecOutput: deployments created
LiveDeps == 3           \* SpecLive: deployments created
HangDeps == 2           \* SpecHang: deployments created
ScanDeps == 3           \* SpecScan: deployments created
RestartDeps == 2        \* SpecRestart: deployments created
TimerDeps == 2          \* SpecTimer: deployments created
SecondDeps == 2         \* SpecSecond: deployments created
SerialDeps == 2         \* SpecSerial: deployments created
SerialRetries == 1      \* SpecSerial: retry requests that are accepted
SerialProjects == 2     \* SpecSerial: project rows
NumTimers == 2          \* SpecTimer: interval handles the runtime hands out
OutputSaves == 3        \* SpecOutput: saveBuildLog tasks whose read succeeds
CreateHooks == 1        \* SpecCreate: webhook requests received

(* ------------------------- program constants --------------------------- *)
ScanLimit == 5          \* .limit(5) of the scan query

Deps == 1..NumDeps
Projects == 1..NumProjects

RetryMarker == "--- Retrying deployment ---"
MsgFetch == "Fetching repository..."
MsgInstall == "Installing dependencies..."
MsgBuild == "Running build command..."
MsgAssets == "Processing assets..."
MsgCdn == "Deploying to CDN..."

MsgExtract == "Failed to extract uploaded file"
MsgNoProject == "Project not found for deployment"
NullError == [isNull |-> TRUE, message |-> ""]
ErrorOf(m) == [isNull |-> FALSE, message |-> m]

VARIABLES
  status,             \* deployments.status per row ("absent": no such row)
  error,              \* deployments.error per row
  build_log,          \* deployments.build_log per row
  project_id,         \* deployments.project_id per row (0: no such row)
  nextId,             \* rows created so far; ids follow created_at order
  queueIsProcessing,  \* DeploymentQueue.isProcessing
  scanPc,             \* position of processQueuedDeployments
  batch,              \* rows of the scan query still to be processed
  buildQueue,         \* DeploymentService.buildQueue (deployment ids)
  serviceIsProcessing,\* DeploymentService.isProcessing
  chains,             \* running processQueue invocations
  saves,              \* saveBuildLog tasks in flight (bag)
  calls,              \* retry / cancel requests in flight (bag)
  limits,             \* bounds of the specification (fixed by Init);
                      \* scans: whether scanned and started are recorded;
                      \* trace: whether stages is recorded
  retries,            \* retry requests accepted so far
  savesDone,          \* saveBuildLog tasks whose read succeeded so far
  cancelledFrom,      \* history: status the last cancel update replaced
  retriedSince,       \* history: row re-queued by retry, not rebuilt since
  lastCall,           \* history: outcome of the request completed last
  scanned,            \* history: rows the last scan query found queued
  started,            \* history: rows of scanned whose build began since
  commit_sha,         \* deployments.commit_sha per row
  environment,        \* deployments.environment per row
  projects,           \* projects.repository (url, branch) per row
  secret,             \* process.env.WEBHOOK_SECRET ("": not configured)
  hook,               \* the webhook request being handled
  hooksSeen,          \* webhook requests received so far
  lastHook,           \* history: the webhook request answered last
  gone,               \* rows of deployments that were deleted
  cleanup,            \* the cleanupOldDeployments call in progress
  project_status,     \* projects.status per row (of the rows that exist)
  uploads,            \* rows whose POST /upload is between insert and update
  tree,               \* the working tree of the repository once cloned
  stages,             \* history: the stages of the last run of each row
  build_time,         \* deployments.build_time per row
  size,               \* deployments.size per row
  url,                \* deployments.url per row
  timers,             \* the intervals that are armed
  processingInterval, \* DeploymentQueue.processingInterval (NoTimer: null)
  runs                \* SpecTimer: the executions of processQueuedDeployments
                      \* past their guard, each with its position and rows

storeVars == <<status, error, build_log, project_id, nextId>>
schedVars == <<queueIsProcessing, scanPc, batch>>
execVars == <<buildQueue, serviceIsProcessing, chains>>
histVars == <<limits, retries, savesDone, cancelledFrom, retriedSince, lastCall>>
scanVars == <<scanned, started>>
commitVars == <<commit_sha, environment>>
hookVars == <<projects, secret, hook, hooksSeen, lastHook>>
adminVars == <<gone, cleanup, project_status, uploads, tree, stages>>
resultVars == <<build_time, size, url>>
timerVars == <<timers, processingInterval, runs>>
vars == <<status, error, build_log, project_id, nextId, queueIsProcessing,
          scanPc, batch, buildQueue, serviceIsProcessing, chains, saves,
          calls, limits, retries, savesDone, cancelledFrom, retriedSince,
          lastCall, scanned, started, commit_sha, environment, projects,
          secret, hook, hooksSeen, lastHook, gone, cleanup, project_status,
          uploads, tree, stages, build_time, size, url, timers,
          processingInterval, runs>>

\* processingInterval = null
NoTimer == 0

\* the handles setInterval returns
TimerIds == 1..NumTimers

NoCall == [op |-> "none", dep |-> 0, seen |-> "none", outcome |-> "none"]

\* repository urls and branches of the projects and of the webhook payloads
Urls == {"r1.git", "r2.git"}
Branches == {"main", "dev"}

\* a project id without a row
NoProject == [url |-> "", branch |-> ""]

\* commit_sha of a deployment triggered by hand without commit information
NoSha == ""

\* the digest of the request body under the key k, as GitHub sends it
Hmac(k) ==
  CASE k = "k1" -> "sha256=d1"
    [] k = "k2" -> "sha256=d2"
    [] OTHER -> "sha256=d0"

\* the headers verifyWebhookSignature reads ("": the header is not sent)
Headers == [hub : {"", Hmac("k1"), Hmac("k2")},
            token : {"", "k1", "k2"},
            uuid : {"", "u1"}]

\* commits of a push, in the order of the payload
Commits == {<<>>, <<"c1", "c2">>}

\* one changed ref of a push: its name, its commits, whether it is a branch
Changes == [branch : Branches, commits : Commits, isBranch : BOOLEAN]

\* a field the payload does not carry (undefined in the handler)
Absent == "undefined"

\* a commit object of a payload without its author field
Unauthored == "c0"

NoRequest == [provider |-> "none", event |-> "", action |-> "",
              headers |-> [hub |-> "", token |-> "", uuid |-> ""],
              url |-> "", changes |-> <<>>, head |-> "", sha |-> ""]

\* no webhook request
NoHook == [pc |-> "none", req |-> NoRequest, response |-> 0, events |-> <<>>,
           k |-> 0, todo |-> <<>>, created |-> {}]

\* no cleanupOldDeployments call is running
NoCleanup == [pc |-> "idle", cutoff |-> 0, ids |-> {}, runs |-> 0]

\* no run of buildAndDeploy yet: stages started, stages completed, whether
\* one threw
NoRun == [started |-> <<>>, done |-> <<>>, failed |-> FALSE]

\* build_time, size and url of a row that was not ready yet
NoSeconds == "null"
NoBytes == -1
NoUrl == 0

\* a repository with a package.json and a build command whose build leaves
\* the configured output directory with OutBytes bytes of files
OutBytes == 2
BuiltSite == [manifest |-> TRUE, command |-> TRUE, outdir |-> TRUE,
              index |-> FALSE, bytes |-> OutBytes]

\* the state after construction and DeploymentQueue.initialize(io), but for
\* the repository
Begin ==
  /\ status = [d \in Deps |-> "absent"]
  /\ error = [d \in Deps |-> NullError]
  /\ build_log = [d \in Deps |-> <<>>]
  /\ project_id = [d \in Deps |-> 0]
  /\ nextId = 0
  /\ queueIsProcessing = FALSE
  /\ scanPc = "idle"
  /\ batch = <<>>
  /\ buildQueue = <<>>
  /\ serviceIsProcessing = FALSE
  /\ chains = <<>>
  /\ saves = EmptyBag
  /\ calls = EmptyBag
  /\ retries = 0
  /\ savesDone = 0
  /\ cancelledFrom = [d \in Deps |-> "none"]
  /\ retriedSince = [d \in Deps |-> FALSE]
  /\ lastCall = NoCall
  /\ scanned = {}
  /\ started = {}
  /\ commit_sha = [d \in Deps |-> NoSha]
  /\ environment = [d \in Deps |-> "none"]
  /\ hook = NoHook
  /\ hooksSeen = 0
  /\ lastHook = NoHook
  /\ gone = {}
  /\ cleanup = NoCleanup
  /\ project_status = [p \in Projects |-> "active"]
  /\ uploads = {}
  /\ stages = [d \in Deps |-> NoRun]
  /\ build_time = [d \in Deps |-> NoSeconds]
  /\ size = [d \in Deps |-> NoBytes]
  /\ url = [d \in Deps |-> NoUrl]
  /\ timers = {1}
  /\ processingInterval = 1
  /\ runs = <<>>

\* the state after construction and DeploymentQueue.initialize(io)
Start == Begin /\ tree = BuiltSite

\* one project, no WEBHOOK_SECRET
Solo ==
  /\ projects = [p \in Projects |->
                   IF p <= SoloProjects THEN [url |-> "r1.git", branch |-> "main"]
                   ELSE NoProject]
  /\ secret = ""

Init ==
  /\ Start
  /\ limits = [deps |-> LogDeps, retries |-> LogRetries, saves |-> LogSaves,
               scans |-> FALSE, trace |-> FALSE,
               projects |-> SoloProjects, hooks |-> 0]
  /\ Solo

InitRetry ==
  /\ Start
  /\ limits = [deps |-> RetryDeps, retries |-> RetryRetries, saves |-> 0,
               scans |-> FALSE, trace |-> FALSE,
               projects |-> SoloProjects, hooks |-> 0]
  /\ Solo

InitStatus ==
  /\ Start
  /\ limits = [deps |-> StatusDeps, retries |-> StatusRetries, saves |-> 0,
               scans |-> FALSE, trace |-> FALSE,
               projects |-> SoloProjects, hooks |-> 0]
  /\ Solo

InitLog ==
  /\ Start
  /\ limits = [deps |-> SaveDeps, retries |-> 0, saves |-> SaveSaves,
               scans |-> FALSE, trace |-> FALSE,
               projects |-> SoloProjects, hooks |-> 0]
  /\ Solo

\* the projects table and WEBHOOK_SECRET are what the operator set up
InitHook ==
  /\ Start
  /\ limits = [deps |-> HookDeps, retries |-> 0, saves |-> 0, scans |-> FALSE, trace |-> FALSE,
               projects |-> HookProjects, hooks |-> MaxHooks]
  /\ projects \in [Projects -> [url : Urls, branch : Branches] \cup {NoProject}]
  /\ \A p \in Projects : projects[p] # NoProject <=> p <= HookProjects
  /\ secret \in {"", "k1"}

\* two projects on the branches of one repository
InitPayload ==
  /\ Start
  /\ limits = [deps |-> PayloadDeps, retries |-> 0, saves |-> 0,
               scans |-> FALSE, trace |-> FALSE,
               projects |-> PayloadProjects, hooks |-> MaxHooks]
  /\ projects = [p \in Projects |->
                   IF p = 1 THEN [url |-> "r1.git", branch |-> "main"]
                   ELSE IF p <= PayloadProjects
                   THEN [url |-> "r1.git", branch |-> "dev"]
                   ELSE NoProject]
  /\ secret \in {"", "k1"}

InitFifo ==
  /\ Start
  /\ limits = [deps |-> FifoDeps, retries |-> FifoRetries, saves |-> 0,
               scans |-> TRUE, trace |-> FALSE,
               projects |-> SoloProjects, hooks |-> 0]
  /\ Solo

InitCleanup ==
  /\ Start
  /\ limits = [deps |-> CleanDeps, retries |-> CleanRetries, saves |-> 0,
               scans |-> FALSE, trace |-> FALSE,
               projects |-> SoloProjects, hooks |-> 0]
  /\ Solo

\* two projects on one repository, no WEBHOOK_SECRET
InitDelete ==
  /\ Start
  /\ limits = [deps |-> DeleteDeps, retries |-> 0, saves |-> 0,
               scans |-> FALSE, trace |-> FALSE,
               projects |-> DeleteProjects, hooks |-> DeleteHooks]
  /\ projects \in [Projects -> [url : {"r1.git"}, branch : Branches]
                                \cup {NoProject}]
  /\ \A p \in Projects : projects[p] # NoProject <=> p <= DeleteProjects
  /\ secret = ""

InitCreate ==
  /\ Start
  /\ limits = [deps |-> CreateDeps, retries |-> 0, saves |-> 0,
               scans |-> FALSE, trace |-> FALSE,
               projects |-> SoloProjects, hooks |-> CreateHooks]
  /\ Solo

\* the working trees: bytes is the total size of the files under the output
\* directory when the assets stage runs
Trees ==
  {t \in [manifest : BOOLEAN, command : BOOLEAN, outdir : BOOLEAN,
          index : BOOLEAN, bytes : 0..OutBytes] : ~t.outdir => t.bytes = 0}

\* any repository, its runs recorded
InitSite ==
  /\ Begin
  /\ tree \in Trees
  /\ limits = [deps |-> SiteDeps, retries |-> 0, saves |-> 0,
               scans |-> FALSE, trace |-> TRUE,
               projects |-> SoloProjects, hooks |-> 0]
  /\ Solo

\* one deployment, its run and its log lines recorded
InitOutput ==
  /\ Start
  /\ limits = [deps |-> OutputDeps, retries |-> 0, saves |-> OutputSaves,
               scans |-> FALSE, trace |-> TRUE,
               projects |-> SoloProjects, hooks |-> 0]
  /\ Solo

InitLive ==
  /\ Start
  /\ limits = [deps |-> LiveDeps, retries |-> 0, saves |-> 0,
               scans |-> FALSE, trace |-> FALSE,
               projects |-> SoloProjects, hooks |-> 0]
  /\ Solo

InitHang ==
  /\ Start
  /\ limits = [deps |-> HangDeps, retries |-> 0, saves |-> 0,
               scans |-> FALSE, trace |-> FALSE,
               projects |-> SoloProjects, hooks |-> 0]
  /\ Solo

InitScan ==
  /\ Start
  /\ limits = [deps |-> ScanDeps, retries |-> 0, saves |-> 0,
               scans |-> FALSE, trace |-> FALSE,
               projects |-> SoloProjects, hooks |-> 0]
  /\ Solo

InitRestart ==
  /\ Start
  /\ limits = [deps |-> RestartDeps, retries |-> 0, saves |-> 0,
               scans |-> FALSE, trace |-> FALSE,
               projects |-> SoloProjects, hooks |-> 0]
  /\ Solo

InitTimer ==
  /\ Start
  /\ limits = [deps |-> TimerDeps, retries |-> 0, saves |-> 0,
               scans |-> FALSE, trace |-> FALSE,
               projects |-> SoloProjects, hooks |-> 0]
  /\ Solo

\* two projects on two repositories
InitSerial ==
  /\ Start
  /\ limits = [deps |-> SerialDeps, retries |-> SerialRetries, saves |-> 0,
               scans |-> FALSE, trace |-> FALSE,
               projects |-> SerialProjects, hooks |-> 0]
  /\ projects = [p \in Projects |->
                   IF p = 1 THEN [url |-> "r1.git", branch |-> "main"]
                   ELSE IF p <= SerialProjects
                   THEN [url |-> "r2.git", branch |-> "main"]
                   ELSE NoProject]
  /\ secret = ""

InitSecond ==
  /\ Start
  /\ limits = [deps |-> SecondDeps, retries |-> 0, saves |-> 0,
               scans |-> FALSE, trace |-> FALSE,
               projects |-> SoloProjects, hooks |-> 0]
  /\ Solo

InitBatch ==
  /\ Start
  /\ limits = [deps |-> BatchDeps, retries |-> 0, saves |-> 0,
               scans |-> FALSE, trace |-> FALSE,
               projects |-> SoloProjects, hooks |-> 0]
  /\ Solo

(* ------------------------------ helpers -------------------------------- *)
RemoveAt(s, i) == SubSeq(s, 1, i - 1) \o SubSeq(s, i + 1, Len(s))

SetAt(s, i, v) == [s EXCEPT ![i] = v]

RECURSIVE Ascending(_, _)
\* the ids of S between lo and NumDeps, ascending (order by created_at)
Ascending(S, lo) ==
  IF lo > NumDeps THEN <<>>
  ELSE IF lo \in S THEN <<lo>> \o Ascending(S, lo + 1)
  ELSE Ascending(S, lo + 1)

FirstN(s, n) == SubSeq(s, 1, IF Len(s) < n THEN Len(s) ELSE n)

\* select ... eq(status, queued) order(created_at asc) limit(5)
QueuedRows ==
  FirstN(Ascending({d \in Deps \ gone : status[d] = "queued"}, 1), ScanLimit)

(* ------------------- DeploymentQueue.queueDeployment ------------------- *)
\* project lookup ('Project not found' when there is no such row) and insert
\* of a row with status queued
CreateDeployment(p, sha, env) ==
  /\ p \in 1..limits.projects
  /\ nextId < limits.deps
  /\ nextId' = nextId + 1
  /\ status' = [status EXCEPT ![nextId + 1] = "queued"]
  /\ project_id' = [project_id EXCEPT ![nextId + 1] = p]
  /\ commit_sha' = [commit_sha EXCEPT ![nextId + 1] = sha]
  /\ environment' = [environment EXCEPT ![nextId + 1] = env]
  /\ UNCHANGED <<error, build_log>>

\* queueDeployment(projectId) called for a deployment triggered by hand
QueueDeployment(p) ==
  /\ CreateDeployment(p, NoSha, "production")
  /\ UNCHANGED <<adminVars, timerVars, resultVars,
                 hookVars, scanVars, schedVars, execVars, saves, calls,
                 histVars>>

(* ------------------- DeploymentService (the executor) ------------------ *)
\* emitBuildLog: the un-awaited saveBuildLog(deploymentId, message) tasks;
\* read tells whether the task's getDeployment succeeds (the task ends at
\* once when it fails)
Emit(d, msgs, read) ==
  IF read
  THEN saves (+) SetToBag({[dep |-> d, msg |-> msgs[i], pc |-> "get",
                            log |-> <<>>] : i \in 1..Len(msgs)})
  ELSE saves

CanEmit(k, read) == read => savesDone + k <= limits.saves

\* a queueDeployment that leaves the entry it pushed to a later call
StartsNever(flag) == FALSE

\* a queueDeployment that starts processQueue whatever the flag says
StartsAlways(flag) == TRUE

\* queueDeployment: if (!this.isProcessing) this.processQueue()
StartsProcessQueue(flag) == ~flag

\* processQueue: shift() takes the head of buildQueue
Shift(q) == Tail(q)

\* processQueue up to its first await, run by the invocation o (0: a new one)
\* on the queue q: the queue, the flag and the invocations after it
ProcessQueue(q, cs, o) ==
  IF q = <<>>
  THEN [queue |-> q, flag |-> FALSE,
        chains |-> IF o = 0 THEN cs ELSE RemoveAt(cs, o)]
  ELSE LET c == [dep |-> Head(q), pc |-> "status", message |-> ""]
       IN [queue |-> Shift(q), flag |-> TRUE,
           chains |-> IF o = 0 THEN Append(cs, c) ELSE SetAt(cs, o, c)]

(* ---------------------- DeploymentQueue (the scheduler) ---------------- *)
\* the interval callback and processQueuedDeployments up to the scan query
Tick ==
  /\ ~queueIsProcessing
  /\ scanPc = "idle"
  /\ queueIsProcessing' = TRUE
  /\ scanPc' = "query"
  /\ UNCHANGED <<adminVars, timerVars, resultVars,
                 hookVars, commitVars, scanVars, storeVars, batch, execVars,
                 saves, calls, histVars>>

\* a scan whose end leaves isProcessing as it is
ScanAfterNoFinally(rows) ==
  IF rows = <<>>
  THEN queueIsProcessing' = queueIsProcessing /\ scanPc' = "idle" /\ batch' = <<>>
  ELSE queueIsProcessing' = TRUE /\ scanPc' = "claim" /\ batch' = rows

\* the finally block of processQueuedDeployments once rows is what is left
ScanAfter(rows) ==
  IF rows = <<>>
  THEN queueIsProcessing' = FALSE /\ scanPc' = "idle" /\ batch' = <<>>
  ELSE queueIsProcessing' = TRUE /\ scanPc' = "claim" /\ batch' = rows

\* the scan query returns; an empty result ends the scan
ScanQuery ==
  /\ scanPc = "query"
  /\ ScanAfter(QueuedRows)
  /\ scanned' = IF limits.scans THEN {d \in Deps : status[d] = "queued"}
                ELSE scanned
  /\ started' = {}
  /\ UNCHANGED <<adminVars, timerVars, resultVars,
                 hookVars, commitVars, storeVars, execVars, saves, calls,
                 histVars>>

\* the scan query fails: the store answers with an error (how = "error",
\* the early return) or the call throws (how = "throw", the outer catch);
\* the finally block ends the scan either way
QueryFails(how) ==
  /\ scanPc = "query"
  /\ how \in {"error", "throw"}
  /\ ScanAfter(<<>>)
  /\ UNCHANGED <<adminVars, timerVars, resultVars,
                 hookVars, commitVars, scanVars, storeVars, execVars, saves,
                 calls, histVars>>

\* processDeployment throws 'Project not found for deployment': the row at
\* the head of the batch came back from the query without its project
ProcessThrows ==
  /\ scanPc = "claim"
  /\ scanPc' = "catch"
  /\ UNCHANGED <<adminVars, timerVars, resultVars,
                 hookVars, commitVars, scanVars, storeVars, queueIsProcessing,
                 batch, execVars, saves, calls, histVars>>

\* a loop that an exception of processDeployment leaves
AfterThrowNone(rows) == <<>>

\* the rows the for loop still visits after the catch for the head of rows
AfterThrow(rows) == Tail(rows)

\* the catch inside the for loop: updateDeployment(id, { status: 'error',
\* error: { message } }) returns, and the loop goes on
ScanCatch ==
  /\ scanPc = "catch"
  /\ status' = [status EXCEPT ![Head(batch)] = "error"]
  /\ error' = [error EXCEPT ![Head(batch)] = ErrorOf(MsgNoProject)]
  /\ ScanAfter(AfterThrow(batch))
  /\ UNCHANGED <<adminVars, timerVars, resultVars,
                 hookVars, commitVars, scanVars, build_log, project_id, nextId,
                 execVars, saves, calls, histVars>>

\* processDeployment: updateDeployment(id, {status: 'building'})
ClaimStatus(prev) == "building"

Claim ==
  /\ scanPc = "claim"
  /\ status' = [status EXCEPT ![Head(batch)] = ClaimStatus(status[Head(batch)])]
  /\ scanPc' = "dispatch"
  /\ UNCHANGED <<adminVars, timerVars, resultVars,
                 hookVars, commitVars, scanVars, error, build_log, project_id,
                 nextId, queueIsProcessing, batch,
                 execVars, saves, calls, histVars>>

\* DeploymentService.queueDeployment: the commit-info update returns, the
\* entry is pushed and processQueue is started when the executor is idle;
\* then the scan loop goes on to the next row
Dispatch ==
  /\ scanPc = "dispatch"
  /\ LET d == Head(batch)
         q == Append(buildQueue, d)
         r == IF StartsProcessQueue(serviceIsProcessing)
              THEN ProcessQueue(q, chains, 0)
              ELSE [queue |-> q, flag |-> serviceIsProcessing, chains |-> chains]
     IN /\ buildQueue' = r.queue
        /\ serviceIsProcessing' = r.flag
        /\ chains' = r.chains
  /\ ScanAfter(Tail(batch))
  /\ UNCHANGED <<adminVars, timerVars, resultVars,
                 hookVars, commitVars, scanVars, storeVars, saves, calls,
                 histVars>>

(* ------------------- DeploymentQueue: the interval -------------------- *)
\* clearInterval that clears nothing
ClearedNone(ts, h) == ts

\* clearInterval(h): the intervals still armed
Cleared(ts, h) == ts \ {h}

\* startProcessing (initialize calls it): clears the interval it holds, if
\* any, and arms a new one
StartProcessing ==
  /\ \E id \in TimerIds \ timers :
       /\ timers' = (IF processingInterval # NoTimer
                     THEN Cleared(timers, processingInterval)
                     ELSE timers) \cup {id}
       /\ processingInterval' = id
  /\ UNCHANGED <<runs, adminVars, resultVars, hookVars, commitVars, scanVars,
                 storeVars, schedVars, execVars, saves, calls, histVars>>

\* stopProcessing: clears the interval it holds, if any
StopProcessing ==
  /\ IF processingInterval # NoTimer
     THEN /\ timers' = Cleared(timers, processingInterval)
          /\ processingInterval' = NoTimer
     ELSE UNCHANGED <<timers, processingInterval>>
  /\ UNCHANGED <<runs, adminVars, resultVars, hookVars, commitVars, scanVars,
                 storeVars, schedVars, execVars, saves, calls, histVars>>

\* a guard that lets every call through
MayScanAlways(flag) == TRUE

\* if (!this.isProcessing) in the interval callback and
\* if (this.isProcessing || !this.deploymentService) return in
\* processQueuedDeployments
MayScan(flag) == ~flag

\* the interval t fires: the callback and processQueuedDeployments up to
\* the scan query
TimerTick(t) ==
  /\ t \in timers
  /\ IF MayScan(queueIsProcessing)
     THEN /\ queueIsProcessing' = TRUE
          /\ runs' = Append(runs, [pc |-> "query", batch |-> <<>>])
     ELSE UNCHANGED <<queueIsProcessing, runs>>
  /\ UNCHANGED <<timers, processingInterval, scanPc, batch, adminVars,
                 resultVars, hookVars, commitVars, scanVars, storeVars,
                 execVars, saves, calls, histVars>>

\* the execution k of processQueuedDeployments goes on with rows left: the
\* next row, or the finally block
RunAfter(k, rows) ==
  IF rows = <<>>
  THEN /\ queueIsProcessing' = FALSE
       /\ runs' = RemoveAt(runs, k)
  ELSE /\ queueIsProcessing' = queueIsProcessing
       /\ runs' = SetAt(runs, k, [pc |-> "claim", batch |-> rows])

\* the scan query of the execution k returns
RunQuery(k) ==
  /\ runs[k].pc = "query"
  /\ RunAfter(k, QueuedRows)
  /\ UNCHANGED <<timers, processingInterval, scanPc, batch, adminVars,
                 resultVars, hookVars, commitVars, scanVars, storeVars,
                 execVars, saves, calls, histVars>>

\* processDeployment of the execution k: updateDeployment(id, {status:
\* 'building'}) returns
RunClaim(k) ==
  /\ runs[k].pc = "claim"
  /\ LET d == Head(runs[k].batch)
     IN status' = [status EXCEPT ![d] = ClaimStatus(status[d])]
  /\ runs' = SetAt(runs, k, [runs[k] EXCEPT !.pc = "dispatch"])
  /\ UNCHANGED <<timers, processingInterval, schedVars, adminVars,
                 resultVars, hookVars, commitVars, scanVars, error, build_log,
                 project_id, nextId, execVars, saves, calls, histVars>>

\* DeploymentService.queueDeployment for the row the execution k claimed
RunDispatch(k) ==
  /\ runs[k].pc = "dispatch"
  /\ LET d == Head(runs[k].batch)
         q == Append(buildQueue, d)
         r == IF StartsProcessQueue(serviceIsProcessing)
              THEN ProcessQueue(q, chains, 0)
              ELSE [queue |-> q, flag |-> serviceIsProcessing, chains |-> chains]
     IN /\ buildQueue' = r.queue
        /\ serviceIsProcessing' = r.flag
        /\ chains' = r.chains
  /\ RunAfter(k, Tail(runs[k].batch))
  /\ UNCHANGED <<timers, processingInterval, scanPc, batch, adminVars,
                 resultVars, hookVars, commitVars, scanVars, storeVars, saves,
                 calls, histVars>>

(* ----------------------- buildAndDeploy, processQueue ------------------ *)
\* an update that leaves the status column as it is
UpdateStatusKeeps(prev, new) == prev

\* updateDeploymentStatus(id, status): the status the update writes
UpdateStatus(prev, new) == new

\* buildAndDeploy: updateDeploymentStatus(building), then the first log line
BuildStart(i, read) ==
  /\ chains[i].pc = "status"
  /\ CanEmit(1, read)
  /\ LET d == chains[i].dep
     IN /\ status' = [status EXCEPT ![d] = UpdateStatus(status[d], "building")]
        /\ retriedSince' = [retriedSince EXCEPT ![d] = FALSE]
        /\ started' = started \cup ({d} \cap scanned)
        /\ saves' = Emit(d, <<MsgFetch>>, read)
        /\ savesDone' = IF read THEN savesDone + 1 ELSE savesDone
        /\ stages' = IF limits.trace
                     THEN [stages EXCEPT ![d] = [NoRun EXCEPT
                                                  !.started = <<"fetch">>]]
                     ELSE stages
  /\ chains' = SetAt(chains, i, [chains[i] EXCEPT !.pc = "fetch"])
  /\ UNCHANGED <<error, build_log, project_id, nextId, schedVars, buildQueue,
                 serviceIsProcessing, calls, limits, retries, cancelledFrom,
                 lastCall, scanned, commitVars, hookVars, gone, cleanup,
                 project_status, uploads, tree, timerVars, resultVars>>

\* the stages of buildAndDeploy in order
StagePcs == {"fetch", "install", "build", "assets", "cdn"}

\* an order of the stages that goes from install to the assets
NextPcSkipsBuild(pc) ==
  CASE pc = "fetch" -> "install"
    [] pc = "install" -> "assets"
    [] pc = "build" -> "assets"
    [] pc = "assets" -> "cdn"
    [] pc = "cdn" -> "ready"

\* the stage after pc, or the final update when pc is the last stage
NextPc(pc) ==
  CASE pc = "fetch" -> "install"
    [] pc = "install" -> "build"
    [] pc = "build" -> "assets"
    [] pc = "assets" -> "cdn"
    [] pc = "cdn" -> "ready"

\* the log line buildAndDeploy emits once the stage pc has completed
MsgAfter(pc) ==
  CASE pc = "fetch" -> <<MsgInstall>>
    [] pc = "install" -> <<MsgBuild>>
    [] pc = "build" -> <<MsgAssets>>
    [] pc = "assets" -> <<MsgCdn>>
    [] pc = "cdn" -> <<>>

\* processAssets catches every failure (build_settings.directory is set);
\* the other stages can throw
CanFail(pc) == pc # "assets"

FailureMessage(pc) ==
  CASE pc = "fetch" -> "No repository configured"
    [] pc = "install" -> "npm install failed with code 1"
    [] pc = "build" -> "Build command failed with code 1"
    [] pc = "cdn" -> "Copy directory error"
    [] OTHER -> ""

\* the history of a run once the stage pc has completed and buildAndDeploy
\* has gone on to its next statement
Completed(r, pc) ==
  [r EXCEPT !.done = Append(@, pc),
            !.started = IF NextPc(pc) \in StagePcs
                        THEN Append(@, NextPc(pc)) ELSE @]

\* stages that can end well or throw whatever the working tree holds
OutcomesAnyTree(pc, t) == BOOLEAN

\* what a stage can do in the working tree t: end well (TRUE) or throw
\* (FALSE). Without package.json installDependencies skips npm install;
\* without build_settings.command runBuildCommand returns at once;
\* processAssets catches every failure; the readdir of copyDirectory throws
\* when the output directory does not exist
Outcomes(pc, t) ==
  CASE pc = "install" -> IF t.manifest THEN BOOLEAN ELSE {TRUE}
    [] pc = "build" -> IF t.command THEN BOOLEAN ELSE {TRUE}
    [] pc = "assets" -> {TRUE}
    [] pc = "cdn" -> IF t.outdir THEN BOOLEAN ELSE {FALSE}
    [] OTHER -> BOOLEAN

\* one stage of buildAndDeploy ends, well (ok) or with an exception
Stage(i, ok, read) ==
  /\ chains[i].pc \in StagePcs
  /\ LET c == chains[i]
         k == Len(MsgAfter(c.pc))
     IN IF ok
        THEN /\ CanEmit(k, read)
             /\ read => k > 0
             /\ saves' = Emit(c.dep, MsgAfter(c.pc), read)
             /\ savesDone' = IF read THEN savesDone + k ELSE savesDone
             /\ chains' = SetAt(chains, i, [c EXCEPT !.pc = NextPc(c.pc)])
             /\ stages' = IF limits.trace
                          THEN [stages EXCEPT ![c.dep] = Completed(@, c.pc)]
                          ELSE stages
        ELSE /\ CanFail(c.pc)
             /\ ~read
             /\ saves' = saves
             /\ savesDone' = savesDone
             /\ chains' = SetAt(chains, i,
                  [c EXCEPT !.pc = "error1", !.message = FailureMessage(c.pc)])
             /\ stages' = IF limits.trace
                          THEN [stages EXCEPT ![c.dep].failed = TRUE]
                          ELSE stages
  /\ UNCHANGED <<gone, cleanup, project_status, uploads, tree, timerVars, resultVars,
                 hookVars, commitVars, scanVars, storeVars, schedVars,
                 buildQueue, serviceIsProcessing, calls,
                 limits, retries, cancelledFrom, retriedSince, lastCall>>

\* Math.round((Date.now() - startTime) / 1000): a number of seconds
Seconds == "seconds"

\* `https://${project.slug}.yourplatform.com`: one url per project
SiteUrl(p) == p

\* assets.reduce((total, asset) => total + asset.size, 0) over the files
\* processAssets found under the output directory (none when its readdir
\* fails)
AssetBytes(t) == IF t.outdir THEN t.bytes ELSE 0

\* buildAndDeploy: updateDeployment(id, {status: 'ready', ...}); processQueue
\* then arms the one-second timer
ReadyWrite(i) ==
  /\ chains[i].pc = "ready"
  /\ LET d == chains[i].dep
     IN /\ status' = [status EXCEPT ![d] = UpdateStatus(status[d], "ready")]
        /\ build_time' = [build_time EXCEPT ![d] = Seconds]
        /\ url' = [url EXCEPT ![d] = SiteUrl(project_id[d])]
        /\ size' = [size EXCEPT ![d] = AssetBytes(tree)]
  /\ chains' = SetAt(chains, i, [chains[i] EXCEPT !.pc = "timer"])
  /\ UNCHANGED <<timerVars, adminVars, hookVars, commitVars, scanVars, error, build_log, project_id,
                 nextId, schedVars, buildQueue,
                 serviceIsProcessing, saves, calls, histVars>>

\* the catch of buildAndDeploy (from = "error1") and, after its rethrow, the
\* catch of processQueue (from = "error2"): updateDeploymentStatus(error)
ErrorWrite(i, from) ==
  /\ chains[i].pc = from
  /\ from \in {"error1", "error2"}
  /\ LET d == chains[i].dep
     IN /\ status' = [status EXCEPT ![d] = UpdateStatus(status[d], "error")]
        /\ error' = [error EXCEPT ![d] = ErrorOf(chains[i].message)]
  /\ chains' = SetAt(chains, i,
       [chains[i] EXCEPT !.pc = IF from = "error1" THEN "error2" ELSE "timer"])
  /\ UNCHANGED <<adminVars, timerVars, resultVars,
                 hookVars, commitVars, scanVars, build_log, project_id, nextId,
                 schedVars, buildQueue,
                 serviceIsProcessing, saves, calls, histVars>>

\* setTimeout(() => this.processQueue(), 1000) fires
TimerFire(i) ==
  /\ chains[i].pc = "timer"
  /\ LET r == ProcessQueue(buildQueue, chains, i)
     IN /\ buildQueue' = r.queue
        /\ serviceIsProcessing' = r.flag
        /\ chains' = r.chains
  /\ UNCHANGED <<adminVars, timerVars, resultVars,
                 hookVars, commitVars, scanVars, storeVars, schedVars, saves,
                 calls, histVars>>

\* the process stops and starts again while the executor holds work: the
\* constructors run anew (buildQueue = [], isProcessing = false in both
\* services), the running builds are gone with the process, and initialize
\* arms the interval; the rows of the store are what they were
Restart ==
  /\ chains # <<>> \/ buildQueue # <<>> \/ scanPc = "dispatch"
  /\ queueIsProcessing' = FALSE
  /\ scanPc' = "idle"
  /\ batch' = <<>>
  /\ buildQueue' = <<>>
  /\ serviceIsProcessing' = FALSE
  /\ chains' = <<>>
  /\ saves' = EmptyBag
  /\ UNCHANGED <<adminVars, timerVars, resultVars, hookVars, commitVars, scanVars,
                 storeVars, calls, histVars>>

(* -------- the DeploymentService whose processQueue is defined twice ---- *)
\* the later processQueue definition of that class, the one in effect, up to
\* its first await, run by the invocation o (0: a new one) on the queue q
\* with isProcessing = flag: it returns at once when the flag is set or the
\* queue is empty, and nothing in it resets the flag
ProcessQueueSecond(q, flag, cs, o) ==
  IF flag \/ q = <<>>
  THEN [queue |-> q, flag |-> flag,
        chains |-> IF o = 0 THEN cs ELSE RemoveAt(cs, o)]
  ELSE LET c == [dep |-> Head(q), pc |-> "status", message |-> ""]
       IN [queue |-> Shift(q), flag |-> TRUE,
           chains |-> IF o = 0 THEN Append(cs, c) ELSE SetAt(cs, o, c)]

\* queueDeployment of that class: push, then processQueue when the flag is
\* not set; the scan loop goes on to the next row
DispatchSecond ==
  /\ scanPc = "dispatch"
  /\ LET d == Head(batch)
         q == Append(buildQueue, d)
         r == IF StartsProcessQueue(serviceIsProcessing)
              THEN ProcessQueueSecond(q, serviceIsProcessing, chains, 0)
              ELSE [queue |-> q, flag |-> serviceIsProcessing, chains |-> chains]
     IN /\ buildQueue' = r.queue
        /\ serviceIsProcessing' = r.flag
        /\ chains' = r.chains
  /\ ScanAfter(Tail(batch))
  /\ UNCHANGED <<timerVars, adminVars, resultVars,
                 hookVars, commitVars, scanVars, storeVars, saves, calls,
                 histVars>>

\* setTimeout(() => this.processQueue(), 1000) of that processQueue fires
TimerFireSecond(i) ==
  /\ chains[i].pc = "timer"
  /\ LET r == ProcessQueueSecond(buildQueue, serviceIsProcessing, chains, i)
     IN /\ buildQueue' = r.queue
        /\ serviceIsProcessing' = r.flag
        /\ chains' = r.chains
  /\ UNCHANGED <<timerVars, adminVars, resultVars,
                 hookVars, commitVars, scanVars, storeVars, schedVars, saves,
                 calls, histVars>>

\* the stages that wait for the close event of a subprocess: npm install
\* when there is a package.json, the build command when there is one
Spawns(pc, t) ==
  \/ pc = "install" /\ t.manifest
  \/ pc = "build" /\ t.command

\* the subprocess of the stage never exits: its close event never comes, and
\* the promise that installDependencies / runBuildCommand returned has no
\* other way to settle
Hang(i) ==
  /\ chains[i].pc \in StagePcs
  /\ Spawns(chains[i].pc, tree)
  /\ chains' = SetAt(chains, i, [chains[i] EXCEPT !.pc = "hung"])
  /\ UNCHANGED <<adminVars, timerVars, resultVars, hookVars, commitVars, scanVars,
                 storeVars, schedVars, buildQueue, serviceIsProcessing, saves,
                 calls, histVars>>

(* ------------------------------ saveBuildLog --------------------------- *)
\* getDeployment(deploymentId) of a saveBuildLog task returns
SaveGet(t) ==
  /\ t.pc = "get"
  /\ saves' = (saves (-) SetToBag({t}))
                (+) SetToBag({[t EXCEPT !.pc = "put", !.log = build_log[t.dep]]})
  /\ UNCHANGED <<adminVars, timerVars, resultVars,
                 hookVars, commitVars, scanVars, storeVars, schedVars,
                 execVars, calls, histVars>>

\* buildLog.push(message); updateDeployment(id, {build_log: buildLog})
SavePut(t) ==
  /\ t.pc = "put"
  /\ build_log' = [build_log EXCEPT ![t.dep] = Append(t.log, t.msg)]
  /\ saves' = saves (-) SetToBag({t})
  /\ UNCHANGED <<adminVars, timerVars, resultVars,
                 hookVars, commitVars, scanVars, status, error, project_id,
                 nextId, schedVars, execVars, calls,
                 histVars>>

(* ------------- retryFailedDeployment and cancelDeployment -------------- *)
\* a retry guard that lets a cancelled deployment through as well
CanRetryCancelled(s) == s \in {"error", "cancelled"}

\* retryFailedDeployment goes on when deployment.status === 'error'
CanRetry(s) == s = "error"

\* cancelDeployment goes on when ['queued', 'building'].includes(status)
CanCancel(s) == s \in {"queued", "building"}

Allowed(op, s) == IF op = "retry" THEN CanRetry(s) ELSE CanCancel(s)

\* a retry that starts the log over with the marker
RetryLogFresh(log) == <<RetryMarker>>

\* [...(deployment.build_log || []), '--- Retrying deployment ---']
RetryLog(log) == Append(log, RetryMarker)

\* the getDeployment of a retry or cancel request for an existing row
\* returns: the request is rejected on the status it read, or goes on to its
\* update
Request(op, d) ==
  /\ d \in (1..nextId) \ gone
  /\ BagCardinality(calls) < MaxCalls
  /\ LET c == [op |-> op, dep |-> d, seen |-> status[d], log |-> build_log[d],
               after |-> retriedSince[d]]
     IN IF Allowed(op, status[d])
        THEN /\ op = "retry" => retries < limits.retries
             /\ calls' = calls (+) SetToBag({c})
             /\ retries' = IF op = "retry" THEN retries + 1 ELSE retries
             /\ lastCall' = lastCall
        ELSE /\ calls' = calls
             /\ retries' = retries
             /\ lastCall' = [op |-> op, dep |-> d, seen |-> status[d],
                             outcome |-> "rejected"]
  /\ UNCHANGED <<adminVars, timerVars, resultVars,
                 hookVars, commitVars, scanVars, storeVars, schedVars,
                 execVars, saves, limits, savesDone,
                 cancelledFrom, retriedSince>>

\* the update of an accepted retry request lands
RetryWrite(c) ==
  /\ c.op = "retry"
  /\ status' = [status EXCEPT ![c.dep] = "queued"]
  /\ error' = [error EXCEPT ![c.dep] = NullError]
  /\ build_log' = [build_log EXCEPT ![c.dep] = RetryLog(c.log)]
  /\ calls' = calls (-) SetToBag({c})
  /\ retriedSince' = [retriedSince EXCEPT ![c.dep] = TRUE]
  /\ lastCall' = [op |-> "retry", dep |-> c.dep, seen |-> c.seen,
                  outcome |-> "ok"]
  /\ UNCHANGED <<adminVars, timerVars, resultVars,
                 hookVars, commitVars, scanVars, project_id, nextId, schedVars,
                 execVars, saves, limits,
                 retries, savesDone, cancelledFrom>>

\* the update of an accepted cancel request lands
CancelWrite(c) ==
  /\ c.op = "cancel"
  /\ status' = [status EXCEPT ![c.dep] = "cancelled"]
  /\ cancelledFrom' = [cancelledFrom EXCEPT ![c.dep] = status[c.dep]]
  /\ calls' = calls (-) SetToBag({c})
  /\ lastCall' = [op |-> "cancel", dep |-> c.dep, seen |-> c.seen,
                  outcome |-> "ok"]
  /\ UNCHANGED <<adminVars, timerVars, resultVars,
                 hookVars, commitVars, scanVars, error, build_log, project_id,
                 nextId, schedVars, execVars,
                 saves, limits, retries, savesDone, retriedSince>>

(* ------------------------ cleanupOldDeployments ------------------------ *)
\* the statuses the select of cleanupOldDeployments asks for
Removable == {"ready", "error", "cancelled"}

\* select('id').lt('created_at', cutoff).in('status', [...]); ids follow
\* created_at, so the rows created before the cutoff are the rows up to c
OldRows(c) == {d \in (1..nextId) \ gone : d <= c /\ status[d] \in Removable}

\* cleanupOldDeployments up to the answer of its select: it returns 0 when
\* there is no such row and goes on to the delete otherwise
CleanupSelect(c) ==
  /\ cleanup.pc = "idle"
  /\ cleanup.runs < MaxCleanups
  /\ c \in 0..nextId
  /\ cleanup' = [pc |-> IF OldRows(c) = {} THEN "idle" ELSE "delete",
                 cutoff |-> c, ids |-> OldRows(c),
                 runs |-> cleanup.runs + 1]
  /\ UNCHANGED <<gone, project_status, uploads, tree, stages, timerVars, resultVars, hookVars, commitVars, scanVars,
                 storeVars, schedVars, execVars, saves, calls, histVars>>

\* delete().in('id', ids): the rows are removed whatever their status is now
CleanupDelete ==
  /\ cleanup.pc = "delete"
  /\ gone' = gone \cup cleanup.ids
  /\ cleanup' = [cleanup EXCEPT !.pc = "idle"]
  /\ UNCHANGED <<project_status, uploads, tree, stages, timerVars, resultVars, hookVars, commitVars, scanVars, storeVars,
                 schedVars, execVars, saves, calls, histVars>>

(* ------------- POST /projects/:id/deploy, POST /deployments/upload ----- *)
\* CREATE TYPE deployment_status AS ENUM (...)
DeploymentStatuses == {"queued", "building", "ready", "error", "cancelled"}

\* insert of a deployment row with the given status: the column type rejects
\* a status that is not of the enum and no row is created
Insert(p, st, env) ==
  IF st \in DeploymentStatuses
  THEN /\ nextId' = nextId + 1
       /\ status' = [status EXCEPT ![nextId + 1] = st]
       /\ project_id' = [project_id EXCEPT ![nextId + 1] = p]
       /\ commit_sha' = [commit_sha EXCEPT ![nextId + 1] = NoSha]
       /\ environment' = [environment EXCEPT ![nextId + 1] = env]
  ELSE UNCHANGED <<nextId, status, project_id, commit_sha, environment>>

\* the first handler registered for POST /:id/deploy: getProject, then
\* createDeployment with status 'pending'; the handler answers 500 when the
\* insert fails, and also when it succeeds, because
\* DeploymentService.processDeployment is not a function
ManualDeploy(p) ==
  /\ p \in 1..limits.projects
  /\ nextId < limits.deps
  /\ Insert(p, "pending", "production")
  /\ UNCHANGED <<error, build_log, adminVars, timerVars, resultVars, hookVars, scanVars,
                 schedVars, execVars, saves, calls, histVars>>

\* the sizes of the uploaded archive
FileSizes == {1, 2}

\* POST /upload up to deployment.save(): a row with status 'building'
UploadInsert(p) ==
  /\ p \in 1..limits.projects
  /\ nextId < limits.deps
  /\ Insert(p, "building", "production")
  /\ uploads' = uploads \cup {nextId + 1}
  /\ UNCHANGED <<error, build_log, gone, cleanup, project_status, tree,
                 stages, timerVars, resultVars, hookVars, scanVars, schedVars, execVars, saves,
                 calls, histVars>>

\* POST /upload after the archive of n bytes was extracted (ok) or could not
\* be: findByIdAndUpdate with ready, url, buildTime 1 and size, or with error
UploadUpdate(d, ok, n) ==
  /\ d \in uploads
  /\ uploads' = uploads \ {d}
  /\ IF ok
     THEN /\ status' = [status EXCEPT ![d] = "ready"]
          /\ url' = [url EXCEPT ![d] = SiteUrl(project_id[d])]
          /\ build_time' = [build_time EXCEPT ![d] = Seconds]
          /\ size' = [size EXCEPT ![d] = n]
          /\ error' = error
     ELSE /\ status' = [status EXCEPT ![d] = "error"]
          /\ error' = [error EXCEPT ![d] = ErrorOf(MsgExtract)]
          /\ UNCHANGED resultVars
  /\ UNCHANGED <<timerVars, build_log, project_id, nextId, gone, cleanup, project_status,
                 tree, stages, hookVars, commitVars, scanVars, schedVars, execVars,
                 saves, calls, histVars>>

(* --------------------- SupabaseService.deleteProject ------------------- *)
\* DELETE /projects/:id: update({ status: 'deleted' }) of the project row
DeleteProject(p) ==
  /\ p \in 1..limits.projects
  /\ project_status' = [project_status EXCEPT ![p] = "deleted"]
  /\ UNCHANGED <<gone, cleanup, uploads, tree, stages, timerVars, resultVars, hookVars, commitVars, scanVars, storeVars,
                 schedVars, execVars, saves, calls, histVars>>

(* --------------------------- routes/webhooks.js ------------------------ *)
Providers == {"github", "gitlab", "bitbucket"}

\* the values of the event header of each provider
PushEvent(provider) ==
  CASE provider = "github" -> "push"
    [] provider = "gitlab" -> "Push Hook"
    [] provider = "bitbucket" -> "repo:push"

PullEvents(provider) ==
  CASE provider = "github" -> {"pull_request"}
    [] provider = "gitlab" -> {"Merge Request Hook"}
    [] provider = "bitbucket" -> {"pullrequest:created", "pullrequest:updated",
                                  "pullrequest:fulfilled"}

\* the values of payload.action (GitHub) and object_attributes.action (GitLab)
Actions(provider) ==
  CASE provider = "github" -> {"opened", "synchronize", "closed"}
    [] provider = "gitlab" -> {"open", "update", "merge"}
    [] provider = "bitbucket" -> {""}

\* the changed refs of a push: the one ref of a GitHub or GitLab push, the
\* push.changes of a Bitbucket push
PushChanges(provider) ==
  IF provider = "bitbucket"
  THEN UNION {[1..n -> Changes] : n \in 0..MaxChanges}
  ELSE {<<c>> : c \in {x \in Changes : x.isBranch}}

\* the webhook requests a provider sends: pushes, pull / merge requests, pings
RequestsOf(pr) ==
  {[provider |-> pr, event |-> PushEvent(pr), action |-> "", headers |-> h,
    url |-> u, changes |-> cs, head |-> "", sha |-> ""] :
     h \in Headers, u \in Urls, cs \in PushChanges(pr)}
  \cup
  {[provider |-> pr, event |-> ev, action |-> a, headers |-> h,
    url |-> u, changes |-> <<>>, head |-> b, sha |-> "c9"] :
     h \in Headers, u \in Urls, b \in Branches, ev \in PullEvents(pr),
     a \in Actions(pr)}
  \cup
  {[provider |-> pr, event |-> "ping", action |-> "", headers |-> h,
    url |-> u, changes |-> <<>>, head |-> "", sha |-> ""] :
     h \in Headers, u \in Urls}

Requests == UNION {RequestsOf(pr) : pr \in Providers}

\* the changed refs of a push payload that may lack fields: the ref (GitHub),
\* the author of a commit
PayloadChanges(provider) ==
  [branch : IF provider = "bitbucket" THEN {"main"} ELSE {"main", Absent},
   commits : {<<>>, <<"c1", "c2">>, <<Unauthored>>},
   isBranch : {TRUE}]

\* push requests whose payload may lack the repository, the ref or the
\* author of a commit
PushPayloads(pr) ==
  {[provider |-> pr, event |-> PushEvent(pr), action |-> "",
    headers |-> NoRequest.headers, url |-> u, changes |-> cs, head |-> "",
    sha |-> ""] :
     u \in {"r1.git", Absent},
     cs \in IF pr = "bitbucket"
            THEN UNION {[1..n -> PayloadChanges(pr)] : n \in 1..MaxChanges}
            ELSE {<<c>> : c \in PayloadChanges(pr)}}

\* the bodies of POST /generic: repository_url, branch and commit_sha, each
\* of them optional for the sender
GenericPayloads ==
  {[provider |-> "generic", event |-> "", action |-> "",
    headers |-> NoRequest.headers, url |-> u, changes |-> <<>>, head |-> b,
    sha |-> c] :
     u \in {"r1.git", Absent}, b \in {"dev", Absent}, c \in {"c9", NoSha}}

Payloads == PushPayloads("github") \cup PushPayloads("bitbucket")
              \cup GenericPayloads

\* x-hub-signature-256 || x-gitlab-token || x-hook-uuid
Signature(h) ==
  IF h.hub # "" THEN h.hub ELSE IF h.token # "" THEN h.token ELSE h.uuid

\* a check that lets every signature through
IsValidAlways(provider, signature, sec) == TRUE

\* the switch of verifyWebhookSignature: timingSafeEqual against the digest
\* (it throws on another length, which counts as invalid), the token
\* compared with the secret, nothing for Bitbucket
IsValid(provider, signature, sec) ==
  CASE provider = "github" -> signature = Hmac(sec)
    [] provider = "gitlab" -> signature = sec
    [] provider = "bitbucket" -> TRUE

\* a middleware that takes no request for unsigned
UnsignedNever(signature) == FALSE

\* if (!signature): the request carries none of the three headers
Unsigned(signature) == signature = ""

\* verifyWebhookSignature: TRUE when it calls next(), FALSE when it answers 401
Verify(provider, h, sec) ==
  IF sec = "" THEN TRUE
  ELSE IF Unsigned(Signature(h)) THEN TRUE
  ELSE IsValid(provider, Signature(h), sec)

\* a push handler that goes on without commits
HasCommitsAlways(commits) == TRUE

\* if (commits.length === 0) return / continue
HasCommits(commits) == Len(commits) # 0

\* commits[commits.length - 1].id (GitHub, GitLab), commits[0].hash (Bitbucket)
LatestSha(provider, commits) ==
  IF commits = <<>> THEN NoSha
  ELSE IF provider = "bitbucket" THEN commits[1]
  ELSE commits[Len(commits)]

\* a pull request handler that deploys on every action
DeploysOnAnyAction(provider, event, action) == TRUE

\* the pull / merge request events that lead to a deployment: the action
\* test of the GitHub and GitLab handlers, the event test of the Bitbucket
\* route
DeploysOn(provider, event, action) ==
  CASE provider = "github" -> action = "opened" \/ action = "synchronize"
    [] provider = "gitlab" -> action = "open" \/ action = "update"
    [] provider = "bitbucket" ->
         event = "pullrequest:created" \/ event = "pullrequest:updated"

\* the push handler throws a TypeError before its loop: payload.repository
\* is undefined where it reads clone_url / git_http_url / links
ThrowsFirst(req) == req.url = Absent

\* the push handler throws a TypeError at change i: payload.ref is undefined
\* where the GitHub and GitLab handlers call replace on it, or the commit it
\* takes has no author where it reads author.name / author.user
ThrowsAt(req, i) ==
  LET c == req.changes[i]
  IN \/ req.provider # "bitbucket" /\ c.branch = Absent
     \/ /\ c.isBranch
        /\ HasCommits(c.commits)
        /\ LatestSha(req.provider, c.commits) = Unauthored

\* the push handler of the request throws somewhere
Throws(req) ==
  /\ req.provider \in Providers
  /\ req.event = PushEvent(req.provider)
  /\ \/ ThrowsFirst(req)
     \/ \E i \in 1..Len(req.changes) : ThrowsAt(req, i)

RECURSIVE PushCalls(_, _)
\* the calls of handleWebhookDeployment a push handler makes for the changes
\* from index i on: one per branch change that has commits, up to the change
\* at which it throws
PushCalls(req, i) ==
  IF i > Len(req.changes) THEN <<>>
  ELSE IF ThrowsAt(req, i) THEN <<>>
  ELSE LET c == req.changes[i]
       IN (IF c.isBranch /\ HasCommits(c.commits)
           THEN <<[url |-> req.url, branch |-> c.branch,
                   sha |-> LatestSha(req.provider, c.commits),
                   env |-> "production", change |-> i]>>
           ELSE <<>>) \o PushCalls(req, i + 1)

\* the calls of handleWebhookDeployment the route makes for a request
CommitEvents(req) ==
  IF req.provider = "generic"
  THEN <<[url |-> req.url,
          branch |-> IF req.head = Absent THEN "main" ELSE req.head,
          sha |-> req.sha, env |-> "production", change |-> 0]>>
  ELSE IF req.event = PushEvent(req.provider)
  THEN IF ThrowsFirst(req) THEN <<>> ELSE PushCalls(req, 1)
  ELSE IF /\ req.event \in PullEvents(req.provider)
          /\ DeploysOn(req.provider, req.event, req.action)
       THEN <<[url |-> req.url, branch |-> req.head, sha |-> req.sha,
               env |-> "preview", change |-> 0]>>
       ELSE <<>>

\* a query that compares the branch for every environment
MatchingSameBranch(e) ==
  {p \in Projects : projects[p].url = e.url /\ projects[p].branch = e.branch}

\* a query that never compares the branch
MatchingAnyBranch(e) == {p \in Projects : projects[p].url = e.url}

\* handleWebhookDeployment: eq('repository->>url', repositoryUrl) and, for
\* production, eq('repository->>branch', branch)
Matching(e) ==
  {p \in Projects :
     /\ projects[p].url = e.url
     /\ e.env = "production" => projects[p].branch = e.branch}

RECURSIVE AscendingProjects(_, _)
\* the ids of S between lo and NumProjects in ascending order
AscendingProjects(S, lo) ==
  IF lo > NumProjects THEN <<>>
  ELSE IF lo \in S THEN <<lo>> \o AscendingProjects(S, lo + 1)
  ELSE AscendingProjects(S, lo + 1)

\* the response of a route whose handler has ended: 500 from the catch of
\* the route when the handler threw, else the json answer
Answer(req) == IF Throws(req) THEN 500 ELSE 200

\* the middleware and the route handler for the request req up to the first
\* await: 401, or 400 from POST /generic without repository_url, or nothing
\* to deploy, or the first projects query is sent
Receive(req) ==
  IF req.provider # "generic" /\ ~Verify(req.provider, req.headers, secret)
  THEN /\ hook' = NoHook
       /\ lastHook' = [NoHook EXCEPT !.pc = "done", !.req = req,
                                     !.response = 401]
  ELSE IF req.provider = "generic" /\ req.url = Absent
  THEN /\ hook' = NoHook
       /\ lastHook' = [NoHook EXCEPT !.pc = "done", !.req = req,
                                     !.response = 400]
  ELSE IF CommitEvents(req) = <<>>
  THEN /\ hook' = NoHook
       /\ lastHook' = [NoHook EXCEPT !.pc = "done", !.req = req,
                                     !.response = Answer(req)]
  ELSE /\ hook' = [NoHook EXCEPT !.pc = "query", !.req = req,
                                 !.events = CommitEvents(req), !.k = 1]
       /\ lastHook' = lastHook

\* a webhook request arrives
HookReceive ==
  /\ hook.pc = "none"
  /\ hooksSeen < limits.hooks
  /\ hooksSeen' = hooksSeen + 1
  /\ \E req \in Requests : Receive(req)
  /\ UNCHANGED <<adminVars, timerVars, resultVars,
                 projects, secret, commitVars, scanVars, storeVars, schedVars,
                 execVars, saves, calls, histVars>>

\* a webhook request arrives whose payload may lack fields
PayloadReceive ==
  /\ hook.pc = "none"
  /\ hooksSeen < limits.hooks
  /\ hooksSeen' = hooksSeen + 1
  /\ \E req \in Payloads : Receive(req)
  /\ UNCHANGED <<adminVars, timerVars, resultVars,
                 projects, secret, commitVars, scanVars, storeVars, schedVars,
                 execVars, saves, calls, histVars>>

\* the handler h has finished the call for its event h.k: the next call of
\* handleWebhookDeployment, or the response
HookAfter(h) ==
  IF h.k < Len(h.events)
  THEN /\ hook' = [h EXCEPT !.pc = "query", !.k = h.k + 1, !.todo = <<>>]
       /\ lastHook' = lastHook
  ELSE /\ hook' = NoHook
       /\ lastHook' = [h EXCEPT !.pc = "done", !.response = Answer(h.req),
                                !.todo = <<>>]

\* handleWebhookDeployment: the projects query returns
HookQuery ==
  /\ hook.pc = "query"
  /\ LET ms == AscendingProjects(Matching(hook.events[hook.k]), 1)
     IN IF ms = <<>>
        THEN HookAfter(hook)
        ELSE /\ hook' = [hook EXCEPT !.pc = "insert", !.todo = ms]
             /\ lastHook' = lastHook
  /\ UNCHANGED <<adminVars, timerVars, resultVars,
                 projects, secret, hooksSeen, commitVars, scanVars, storeVars,
                 schedVars, execVars, saves, calls, histVars>>

\* handleWebhookDeployment: queueDeployment(project.id, commitInfo,
\* environment) for the next project of the result returns
HookInsert ==
  /\ hook.pc = "insert"
  /\ LET e == hook.events[hook.k]
         h == [hook EXCEPT !.todo = Tail(hook.todo),
                           !.created = hook.created \cup
                                         {[dep |-> nextId + 1, event |-> hook.k]}]
     IN /\ CreateDeployment(Head(hook.todo), e.sha, e.env)
        /\ IF h.todo = <<>>
           THEN HookAfter(h)
           ELSE hook' = h /\ lastHook' = lastHook
  /\ UNCHANGED <<adminVars, timerVars, resultVars,
                 projects, secret, hooksSeen, scanVars, schedVars, execVars,
                 saves, calls, histVars>>

(* ----------------------------- specification --------------------------- *)
Next ==
  \/ \E p \in Projects : QueueDeployment(p)
  \/ Tick
  \/ ScanQuery
  \/ Claim
  \/ Dispatch
  \/ \E i \in 1..Len(chains), read \in BOOLEAN : BuildStart(i, read)
  \/ \E i \in 1..Len(chains), ok, read \in BOOLEAN : Stage(i, ok, read)
  \/ \E i \in 1..Len(chains) : ReadyWrite(i)
  \/ \E i \in 1..Len(chains), from \in {"error1", "error2"} : ErrorWrite(i, from)
  \/ \E i \in 1..Len(chains) : TimerFire(i)
  \/ \E t \in BagToSet(saves) : SaveGet(t)
  \/ \E t \in BagToSet(saves) : SavePut(t)
  \/ \E op \in {"retry", "cancel"}, d \in Deps : Request(op, d)
  \/ \E c \in BagToSet(calls) : RetryWrite(c)
  \/ \E c \in BagToSet(calls) : CancelWrite(c)

Spec == Init /\ [][Next]_vars

\* the same program in an environment where no getDeployment of a
\* saveBuildLog task succeeds, so that build_log is written by retry alone
NextStatus ==
  \/ \E p \in Projects : QueueDeployment(p)
  \/ Tick
  \/ ScanQuery
  \/ Claim
  \/ Dispatch
  \/ \E i \in 1..Len(chains) : BuildStart(i, FALSE)
  \/ \E i \in 1..Len(chains), ok \in BOOLEAN : Stage(i, ok, FALSE)
  \/ \E i \in 1..Len(chains) : ReadyWrite(i)
  \/ \E i \in 1..Len(chains), from \in {"error1", "error2"} : ErrorWrite(i, from)
  \/ \E i \in 1..Len(chains) : TimerFire(i)
  \/ \E op \in {"retry", "cancel"}, d \in Deps : Request(op, d)
  \/ \E c \in BagToSet(calls) : RetryWrite(c)
  \/ \E c \in BagToSet(calls) : CancelWrite(c)

\* one deployment that is retried more than once
SpecRetry == InitRetry /\ [][NextStatus]_vars

\* several deployments of a project
SpecStatus == InitStatus /\ [][NextStatus]_vars

\* the same program while nobody asks for a retry or a cancellation
NextBuild ==
  \/ \E p \in Projects : QueueDeployment(p)
  \/ Tick
  \/ ScanQuery
  \/ Claim
  \/ Dispatch
  \/ \E i \in 1..Len(chains) : BuildStart(i, FALSE)
  \/ \E i \in 1..Len(chains), ok \in BOOLEAN : Stage(i, ok, FALSE)
  \/ \E i \in 1..Len(chains) : ReadyWrite(i)
  \/ \E i \in 1..Len(chains), from \in {"error1", "error2"} : ErrorWrite(i, from)
  \/ \E i \in 1..Len(chains) : TimerFire(i)

\* the builds and their saveBuildLog tasks while nobody asks for a retry or
\* a cancellation
NextLog ==
  \/ \E p \in Projects : QueueDeployment(p)
  \/ Tick
  \/ ScanQuery
  \/ Claim
  \/ Dispatch
  \/ \E i \in 1..Len(chains), read \in BOOLEAN : BuildStart(i, read)
  \/ \E i \in 1..Len(chains), ok, read \in BOOLEAN : Stage(i, ok, read)
  \/ \E i \in 1..Len(chains) : ReadyWrite(i)
  \/ \E i \in 1..Len(chains), from \in {"error1", "error2"} : ErrorWrite(i, from)
  \/ \E i \in 1..Len(chains) : TimerFire(i)
  \/ \E t \in BagToSet(saves) : SaveGet(t)
  \/ \E t \in BagToSet(saves) : SavePut(t)

\* one build whose log lines are saved
SpecLog == InitLog /\ [][NextLog]_vars

\* one build, every log line of which can be saved
SpecOutput == InitOutput /\ [][NextLog]_vars

\* the webhook routes alone: what a request makes of the deployments table
NextHook ==
  \/ HookReceive
  \/ HookQuery
  \/ HookInsert

\* one webhook request against a table of two projects
SpecHook == InitHook /\ [][NextHook]_vars

NextPayload ==
  \/ PayloadReceive
  \/ HookQuery
  \/ HookInsert

\* one webhook request whose payload may lack fields
SpecPayload == InitPayload /\ [][NextPayload]_vars

\* the same program while deployments are retried and nobody cancels
NextFifo ==
  \/ \E p \in Projects : QueueDeployment(p)
  \/ Tick
  \/ ScanQuery
  \/ Claim
  \/ Dispatch
  \/ \E i \in 1..Len(chains) : BuildStart(i, FALSE)
  \/ \E i \in 1..Len(chains), ok \in BOOLEAN : Stage(i, ok, FALSE)
  \/ \E i \in 1..Len(chains) : ReadyWrite(i)
  \/ \E i \in 1..Len(chains), from \in {"error1", "error2"} : ErrorWrite(i, from)
  \/ \E i \in 1..Len(chains) : TimerFire(i)
  \/ \E d \in Deps : Request("retry", d)
  \/ \E c \in BagToSet(calls) : RetryWrite(c)

\* two deployments that fail and are retried
SpecFifo == InitFifo /\ [][NextFifo]_vars

\* deployments of two projects that fail and are retried
SpecSerial == InitSerial /\ [][NextFifo]_vars

\* more deployments than one scan takes
SpecBatch == InitBatch /\ [][NextBuild]_vars

\* the same program while nobody asks for a retry or a cancellation, when
\* the interval timer keeps firing, the store answers every call, every stage
\* ends and the one-second timer of processQueue fires
SpecLive ==
  /\ InitLive
  /\ [][NextBuild]_vars
  /\ WF_vars(Tick)
  /\ WF_vars(ScanQuery)
  /\ WF_vars(Claim)
  /\ WF_vars(Dispatch)
  /\ WF_vars(\E i \in 1..Len(chains) : BuildStart(i, FALSE))
  /\ WF_vars(\E i \in 1..Len(chains), ok \in BOOLEAN : Stage(i, ok, FALSE))
  /\ WF_vars(\E i \in 1..Len(chains) : ReadyWrite(i))
  /\ WF_vars(\E i \in 1..Len(chains), from \in {"error1", "error2"} :
               ErrorWrite(i, from))
  /\ WF_vars(\E i \in 1..Len(chains) : TimerFire(i))

\* the scans when the query can fail and processDeployment can throw
NextScan ==
  \/ \E p \in Projects : QueueDeployment(p)
  \/ Tick
  \/ ScanQuery
  \/ \E how \in {"error", "throw"} : QueryFails(how)
  \/ Claim
  \/ ProcessThrows
  \/ ScanCatch
  \/ Dispatch
  \/ \E i \in 1..Len(chains) : BuildStart(i, FALSE)
  \/ \E i \in 1..Len(chains), ok \in BOOLEAN : Stage(i, ok, FALSE)
  \/ \E i \in 1..Len(chains) : ReadyWrite(i)
  \/ \E i \in 1..Len(chains), from \in {"error1", "error2"} : ErrorWrite(i, from)
  \/ \E i \in 1..Len(chains) : TimerFire(i)

SpecScan == InitScan /\ [][NextScan]_vars

\* the scheduler with its interval handles: startProcessing and
\* stopProcessing are called at any time, every armed interval fires
NextTimer ==
  \/ \E p \in Projects : QueueDeployment(p)
  \/ StartProcessing
  \/ StopProcessing
  \/ \E t \in timers : TimerTick(t)
  \/ \E k \in 1..Len(runs) : RunQuery(k)
  \/ \E k \in 1..Len(runs) : RunClaim(k)
  \/ \E k \in 1..Len(runs) : RunDispatch(k)
  \/ \E i \in 1..Len(chains) : BuildStart(i, FALSE)
  \/ \E i \in 1..Len(chains), ok \in BOOLEAN : Stage(i, ok, FALSE)
  \/ \E i \in 1..Len(chains) : ReadyWrite(i)
  \/ \E i \in 1..Len(chains), from \in {"error1", "error2"} : ErrorWrite(i, from)
  \/ \E i \in 1..Len(chains) : TimerFire(i)

SpecTimer == InitTimer /\ [][NextTimer]_vars

\* the scheduler with the DeploymentService whose processQueue is defined
\* twice
NextSecond ==
  \/ \E p \in Projects : QueueDeployment(p)
  \/ Tick
  \/ ScanQuery
  \/ Claim
  \/ DispatchSecond
  \/ \E i \in 1..Len(chains) : BuildStart(i, FALSE)
  \/ \E i \in 1..Len(chains), ok \in BOOLEAN : Stage(i, ok, FALSE)
  \/ \E i \in 1..Len(chains) : ReadyWrite(i)
  \/ \E i \in 1..Len(chains), from \in {"error1", "error2"} : ErrorWrite(i, from)
  \/ \E i \in 1..Len(chains) : TimerFireSecond(i)

\* fair scheduling of the scheduler and of every step of that executor
SpecSecond ==
  /\ InitSecond
  /\ [][NextSecond]_vars
  /\ WF_vars(Tick)
  /\ WF_vars(ScanQuery)
  /\ WF_vars(Claim)
  /\ WF_vars(DispatchSecond)
  /\ WF_vars(\E i \in 1..Len(chains) : BuildStart(i, FALSE))
  /\ WF_vars(\E i \in 1..Len(chains), ok \in BOOLEAN : Stage(i, ok, FALSE))
  /\ WF_vars(\E i \in 1..Len(chains) : ReadyWrite(i))
  /\ WF_vars(\E i \in 1..Len(chains), from \in {"error1", "error2"} :
               ErrorWrite(i, from))
  /\ WF_vars(\E i \in 1..Len(chains) : TimerFireSecond(i))

\* the builds when the process may be restarted
NextRestart ==
  \/ \E p \in Projects : QueueDeployment(p)
  \/ Tick
  \/ ScanQuery
  \/ Claim
  \/ Dispatch
  \/ \E i \in 1..Len(chains) : BuildStart(i, FALSE)
  \/ \E i \in 1..Len(chains), ok \in BOOLEAN : Stage(i, ok, FALSE)
  \/ \E i \in 1..Len(chains) : ReadyWrite(i)
  \/ \E i \in 1..Len(chains), from \in {"error1", "error2"} : ErrorWrite(i, from)
  \/ \E i \in 1..Len(chains) : TimerFire(i)
  \/ Restart

\* fair scheduling of the scheduler and the executor, as in SpecLive; the
\* process is restarted or not
SpecRestart ==
  /\ InitRestart
  /\ [][NextRestart]_vars
  /\ WF_vars(Tick)
  /\ WF_vars(ScanQuery)
  /\ WF_vars(Claim)
  /\ WF_vars(Dispatch)
  /\ WF_vars(\E i \in 1..Len(chains) : BuildStart(i, FALSE))
  /\ WF_vars(\E i \in 1..Len(chains), ok \in BOOLEAN : Stage(i, ok, FALSE))
  /\ WF_vars(\E i \in 1..Len(chains) : ReadyWrite(i))
  /\ WF_vars(\E i \in 1..Len(chains), from \in {"error1", "error2"} :
               ErrorWrite(i, from))
  /\ WF_vars(\E i \in 1..Len(chains) : TimerFire(i))

\* the builds when a subprocess may never exit
NextHang ==
  \/ \E p \in Projects : QueueDeployment(p)
  \/ Tick
  \/ ScanQuery
  \/ Claim
  \/ Dispatch
  \/ \E i \in 1..Len(chains) : BuildStart(i, FALSE)
  \/ \E i \in 1..Len(chains), ok \in BOOLEAN : Stage(i, ok, FALSE)
  \/ \E i \in 1..Len(chains) : Hang(i)
  \/ \E i \in 1..Len(chains) : ReadyWrite(i)
  \/ \E i \in 1..Len(chains), from \in {"error1", "error2"} : ErrorWrite(i, from)
  \/ \E i \in 1..Len(chains) : TimerFire(i)

\* fair scheduling of the scheduler and the executor, as in SpecLive; a
\* subprocess exits or not as it pleases
SpecHang ==
  /\ InitHang
  /\ [][NextHang]_vars
  /\ WF_vars(Tick)
  /\ WF_vars(ScanQuery)
  /\ WF_vars(Claim)
  /\ WF_vars(Dispatch)
  /\ WF_vars(\E i \in 1..Len(chains) : BuildStart(i, FALSE))
  /\ WF_vars(\E i \in 1..Len(chains), ok \in BOOLEAN : Stage(i, ok, FALSE))
  /\ WF_vars(\E i \in 1..Len(chains) : ReadyWrite(i))
  /\ WF_vars(\E i \in 1..Len(chains), from \in {"error1", "error2"} :
               ErrorWrite(i, from))
  /\ WF_vars(\E i \in 1..Len(chains) : TimerFire(i))

\* the same program while cleanupOldDeployments is called and failed
\* deployments are retried
NextCleanup ==
  \/ \E p \in Projects : QueueDeployment(p)
  \/ Tick
  \/ ScanQuery
  \/ Claim
  \/ Dispatch
  \/ \E i \in 1..Len(chains) : BuildStart(i, FALSE)
  \/ \E i \in 1..Len(chains), ok \in BOOLEAN : Stage(i, ok, FALSE)
  \/ \E i \in 1..Len(chains) : ReadyWrite(i)
  \/ \E i \in 1..Len(chains), from \in {"error1", "error2"} : ErrorWrite(i, from)
  \/ \E i \in 1..Len(chains) : TimerFire(i)
  \/ \E d \in Deps : Request("retry", d)
  \/ \E c \in BagToSet(calls) : RetryWrite(c)
  \/ \E c \in Deps : CleanupSelect(c)
  \/ CleanupDelete

SpecCleanup == InitCleanup /\ [][NextCleanup]_vars

\* the two creation paths of DeploymentQueue while projects are deleted
NextDelete ==
  \/ \E p \in Projects : QueueDeployment(p)
  \/ HookReceive
  \/ HookQuery
  \/ HookInsert
  \/ \E p \in Projects : DeleteProject(p)

SpecDelete == InitDelete /\ [][NextDelete]_vars

\* the scheduler and the executor on a repository of any content, while
\* nobody asks for a retry or a cancellation
NextSite ==
  \/ \E p \in Projects : QueueDeployment(p)
  \/ Tick
  \/ ScanQuery
  \/ Claim
  \/ Dispatch
  \/ \E i \in 1..Len(chains) : BuildStart(i, FALSE)
  \/ \E i \in 1..Len(chains) :
       \E ok \in Outcomes(chains[i].pc, tree) : Stage(i, ok, FALSE)
  \/ \E i \in 1..Len(chains) : ReadyWrite(i)
  \/ \E i \in 1..Len(chains), from \in {"error1", "error2"} : ErrorWrite(i, from)
  \/ \E i \in 1..Len(chains) : TimerFire(i)

SpecSite == InitSite /\ [][NextSite]_vars

\* the handlers that create deployment records
NextCreate ==
  \/ \E p \in Projects : QueueDeployment(p)
  \/ HookReceive
  \/ HookQuery
  \/ HookInsert
  \/ \E p \in Projects : ManualDeploy(p)
  \/ \E p \in Projects : UploadInsert(p)
  \/ \E d \in Deps, ok \in BOOLEAN, n \in FileSizes : UploadUpdate(d, ok, n)

SpecCreate == InitCreate /\ [][NextCreate]_vars

(* ------------------------------ properties ----------------------------- *)
Terminal == {"ready", "error", "cancelled"}

\* the invocation c is inside buildAndDeploy
InBuild(c) == c.pc \in {"status", "fetch", "install", "build", "assets", "cdn",
                        "ready", "error1"}

Occurrences(q, d) == Cardinality({k \in 1..Len(q) : q[k] = d})

Running(d) == Cardinality({i \in 1..Len(chains) :
                             chains[i].dep = d /\ InBuild(chains[i])})

ListedTransitions ==
  {<<"queued", "building">>, <<"building", "ready">>, <<"building", "error">>,
   <<"building", "cancelled">>, <<"queued", "cancelled">>, <<"error", "queued">>}

\* C1: every change of the persisted status of a deployment is one of
\* queued->building, building->ready, building->error, building->cancelled,
\* queued->cancelled, error->queued.
C1_OnlyListedTransitions ==
  [][\A d \in Deps :
       (status[d] # "absent" /\ status'[d] # status[d])
         => <<status[d], status'[d]>> \in ListedTransitions]_vars

\* C2: once a cancel has replaced status building by cancelled, the status of
\* that deployment stays cancelled: it never becomes building, ready or error.
C2_CancelledBuildStaysCancelled ==
  \A d \in Deps : cancelledFrom[d] = "building" => status[d] = "cancelled"

\* C3: once a cancel has replaced status queued by cancelled, the deployment
\* is never moved to building (the write that precedes its hand-over to the
\* executor), also when a scan had already read it as queued.
C3_CancelledQueuedNeverClaimed ==
  \A d \in Deps : cancelledFrom[d] = "queued" => status[d] # "building"

\* C4: a deployment whose status is ready, error or cancelled is never changed
\* by cancelDeployment: a ready or error status is never replaced by cancelled.
C4_TerminalNeverCancelled ==
  [][\A d \in Deps :
       status[d] \in Terminal => (status'[d] = "cancelled" => status[d] = "cancelled")]_vars

\* C5: a retry request on a deployment whose status is queued, building, ready
\* or cancelled is rejected, starts no update and leaves status, error and
\* build_log of the record as they were.
C5_RetryRejectedUnlessError ==
  [][\A d \in Deps :
       (status[d] \notin {"absent", "error"} /\ Request("retry", d))
         => /\ lastCall' = [op |-> "retry", dep |-> d, seen |-> status[d],
                            outcome |-> "rejected"]
            /\ calls' = calls
            /\ UNCHANGED <<status, error, build_log>>]_vars

\* a retry request was rejected on a ready deployment
C5_Witness ==
  /\ lastCall.op = "retry"
  /\ lastCall.outcome = "rejected"
  /\ lastCall.seen = "ready"
  /\ status[lastCall.dep] = "ready"

\* C6: the update of a retry request that read status error sets status to
\* queued and error to null and makes build_log the log the request read
\* followed by exactly one retry marker.
C6_RetryRequeuesAndAppendsMarker ==
  [][\A c \in BagToSet(calls) :
       RetryWrite(c)
         => /\ c.seen = "error"
            /\ status'[c.dep] = "queued"
            /\ error'[c.dep] = NullError
            /\ build_log'[c.dep] = Append(c.log, RetryMarker)]_vars

\* a retry has re-queued a deployment whose log already held a build line
C6_Witness ==
  /\ lastCall.op = "retry"
  /\ lastCall.outcome = "ok"
  /\ status[lastCall.dep] = "queued"
  /\ error[lastCall.dep] = NullError
  /\ build_log[lastCall.dep] = <<MsgFetch, RetryMarker>>

\* C7: no retry request is accepted on a deployment that an earlier retry
\* re-queued and that has not been rebuilt since: the second request finds it
\* queued and is rejected.
C7_SecondRetryRejected ==
  \A c \in BagToSet(calls) : c.op = "retry" => ~c.after

\* C8: two deployments of one project are never both in status building.
C8_NoTwoBuildingPerProject ==
  \A d, e \in Deps :
    (d # e /\ status[d] = "building" /\ status[e] = "building")
      => project_id[d] # project_id[e]

\* C8 as amended: two deployments of one project are never inside
\* buildAndDeploy at the same time.
C8_NoTwoRunsPerProject ==
  \A i, j \in 1..Len(chains) :
    (i # j /\ InBuild(chains[i]) /\ InBuild(chains[j]))
      => project_id[chains[i].dep] # project_id[chains[j].dep]

\* two deployments of one project carry status building while one is built
\* and the other waits in buildQueue
C8_Witness ==
  \E i \in 1..Len(chains), d \in Deps :
    /\ InBuild(chains[i]) /\ chains[i].pc = "build"
    /\ d # chains[i].dep
    /\ Occurrences(buildQueue, d) = 1
    /\ status[d] = "building" /\ status[chains[i].dep] = "building"
    /\ project_id[d] = project_id[chains[i].dep]

\* C9: at most one run of buildAndDeploy is in progress for a deployment id.
C9_OneRunPerDeployment == \A d \in Deps : Running(d) <= 1

\* a deployment that failed and was retried is inside buildAndDeploy again
C9_Witness ==
  \E i \in 1..Len(chains) :
    /\ chains[i].pc = "fetch"
    /\ retries >= 1
    /\ lastCall.op = "retry" /\ lastCall.outcome = "ok"
    /\ lastCall.dep = chains[i].dep

\* C10: a deployment id is never present more than once among the entries of
\* buildQueue plus the build that is running.
C10_NoDuplicateDispatch ==
  \A d \in Deps : Occurrences(buildQueue, d) + Running(d) <= 1

\* C11: the deployments that the scheduler has moved to building and that have
\* not reached a terminal status are never more than the scan limit (5): no
\* further batch is claimed while the previous one is in flight.
C11_AtMostScanLimitInFlight ==
  Cardinality({d \in Deps : status[d] = "building"}) <= ScanLimit

\* C12: of two deployments that a scan query found queued, the one created
\* later never starts building before the one created earlier: rows are
\* claimed and handed over in creation order and built in hand-over order.
C12_FifoAtDispatch ==
  \A d, e \in scanned : (d < e /\ e \in started) => d \in started

IsPrefix(s, t) == Len(s) <= Len(t) /\ SubSeq(t, 1, Len(s)) = s

\* C13: every write of build_log by a saveBuildLog task leaves a list that
\* has the list persisted before it as a prefix: no earlier line is lost or
\* reordered, also when lines are emitted before earlier saves completed.
C13_SavedLogExtendsPersisted ==
  [][\A t \in BagToSet(saves) :
       SavePut(t) => IsPrefix(build_log[t.dep], build_log'[t.dep])]_vars

\* C14: the build_log of a deployment whose status is ready, error or
\* cancelled is not modified, except by the update of a retry that re-queues
\* it: no pending saveBuildLog write lands after the terminal status.
C14_LogFrozenOnceTerminal ==
  [][\A d \in Deps :
       (status[d] \in Terminal /\ build_log'[d] # build_log[d])
         => status'[d] = "queued"]_vars

(* ------------------------- webhook properties -------------------------- *)
\* the webhook requests the model holds: the one in progress and the last
\* one answered
Hooks == {h \in {hook, lastHook} : h.pc # "none"}

\* the rows the request h created in its k-th call of handleWebhookDeployment
RowsOf(h, k) == {c.dep : c \in {x \in h.created : x.event = k}}

\* the rows of project p among rows
RowsFor(rows, p) == {d \in rows : project_id[d] = p}

IsPush(req) == req.event = PushEvent(req.provider)

IsPull(req) == req.event \in PullEvents(req.provider)

\* C15: a push webhook without commits creates no deployment: every row a
\* push creates comes from a changed branch that carries commits, and a push
\* none of whose changes carries a commit leaves the table empty.
C15_NoCommitsNoDeployment ==
  \A h \in Hooks :
    IsPush(h.req) =>
      /\ \A c \in h.created :
           h.req.changes[h.events[c.event].change].commits # <<>>
      /\ (\A i \in 1..Len(h.req.changes) : h.req.changes[i].commits = <<>>)
           => nextId = 0

\* a GitHub push without commits to the branch of a project was answered
C15_Witness ==
  /\ lastHook.pc = "done" /\ lastHook.response = 200
  /\ lastHook.req.provider = "github" /\ IsPush(lastHook.req)
  /\ lastHook.req.changes[1].commits = <<>>
  /\ projects[1] = [url |-> lastHook.req.url,
                    branch |-> lastHook.req.changes[1].branch]
  /\ nextId = 0

C17_PreviewMatchesUrlAlone ==
  lastHook.pc = "done" =>
    \A k \in 1..Len(lastHook.events) :
      LET e == lastHook.events[k]
          rows == RowsOf(lastHook, k)
      IN e.env = "preview" =>
           /\ \A p \in Projects :
                Cardinality(RowsFor(rows, p)) =
                  IF projects[p].url = e.url THEN 1 ELSE 0
           /\ \A d \in rows : /\ status[d] = "queued"
                              /\ environment[d] = "preview"

\* a pull request from branch main has created a preview deployment for a
\* project configured with branch dev
C17_Witness ==
  /\ lastHook.pc = "done"
  /\ IsPull(lastHook.req)
  /\ lastHook.req.head = "main"
  /\ \E d \in 1..nextId :
       /\ projects[project_id[d]].branch = "dev"
       /\ projects[project_id[d]].url = lastHook.req.url
       /\ environment[d] = "preview"

\* the pull / merge request webhooks the claim lets deploy
OpenedOrUpdated(req) ==
  \/ req.provider = "github" /\ req.action \in {"opened", "synchronize"}
  \/ req.provider = "gitlab" /\ req.action \in {"open", "update"}
  \/ /\ req.provider = "bitbucket"
     /\ req.event \in {"pullrequest:created", "pullrequest:updated"}

\* C18: a pull / merge request webhook whose action is not opened or
\* synchronize (GitHub), open or update (GitLab), pullrequest:created or
\* pullrequest:updated (Bitbucket) creates no deployment.
C18_OtherActionsCreateNothing ==
  \A h \in Hooks :
    (IsPull(h.req) /\ ~OpenedOrUpdated(h.req))
      => h.created = {} /\ h.events = <<>> /\ nextId = 0

\* a closed GitHub pull request on the repository of a project was answered
C18_Witness ==
  /\ lastHook.pc = "done" /\ lastHook.response = 200
  /\ lastHook.req.provider = "github" /\ IsPull(lastHook.req)
  /\ lastHook.req.action = "closed"
  /\ projects[1].url = lastHook.req.url
  /\ nextId = 0

\* the request carries the provider's signature or token and it is not the
\* one the secret gives
Mismatch(req) ==
  \/ /\ req.provider = "github"
     /\ req.headers.hub # "" /\ req.headers.hub # Hmac(secret)
  \/ /\ req.provider = "gitlab"
     /\ req.headers.token # "" /\ req.headers.token # secret

\* C19: with WEBHOOK_SECRET configured, a GitHub or GitLab request whose
\* signature or token does not match the secret is answered 401 before a
\* handler runs and creates no deployment.
C19_BadSignatureRejected ==
  \A h \in Hooks :
    (secret # "" /\ Mismatch(h.req))
      => /\ h.pc = "done" /\ h.response = 401
         /\ h.events = <<>> /\ h.created = {}
         /\ nextId = 0

\* a GitHub push with commits to the branch of a project, signed with
\* another key, was answered 401
C19_Witness ==
  /\ secret = "k1"
  /\ lastHook.pc = "done" /\ lastHook.response = 401
  /\ lastHook.req.provider = "github" /\ IsPush(lastHook.req)
  /\ lastHook.req.headers.hub = Hmac("k2")
  /\ lastHook.req.changes[1].commits # <<>>
  /\ projects[1] = [url |-> lastHook.req.url,
                    branch |-> lastHook.req.changes[1].branch]
  /\ nextId = 0

\* the request carries none of the signature headers
NoSignatureHeader(req) ==
  req.headers.hub = "" /\ req.headers.token = "" /\ req.headers.uuid = ""

SignatureMatched(req) ==
  \/ req.provider = "github" /\ req.headers.hub = Hmac(secret)
  \/ req.provider = "gitlab" /\ req.headers.token = secret

\* C21: with WEBHOOK_SECRET configured, every deployment created through the
\* GitHub or GitLab webhook endpoint stems from a request whose signature
\* (the HMAC-SHA256 of the body) or token matched the secret.
C21_CreatedOnlyFromMatchedSignature ==
  \A h \in Hooks :
    (secret # "" /\ h.req.provider \in {"github", "gitlab"} /\ h.created # {})
      => SignatureMatched(h.req)

\* C22: cleanupOldDeployments deletes only rows that are older than the
\* cutoff and whose status is ready, error or cancelled at the moment of the
\* delete, also when a retry re-queues a row between the select and the
\* delete.
C22_CleanupDeletesOnlyTerminal ==
  [][\A d \in gone' \ gone : d <= cleanup.cutoff /\ status[d] \in Removable]_vars

\* C23: a deployment is created for a project that is not deleted at that
\* time: once deleteProject has run for a project, neither a webhook event
\* for its repository nor queueDeployment creates a deployment for it; and
\* deleteProject leaves the deployments that exist as they are.
C23_NoDeploymentForDeletedProject ==
  [][/\ \A d \in (nextId + 1)..nextId' :
          project_status[project_id'[d]] # "deleted"
     /\ project_status' # project_status => UNCHANGED storeVars]_vars

\* C24: every deployment record is created with status queued, whether a
\* webhook, queueDeployment, the manual trigger or an upload creates it.
C24_CreatedQueued ==
  [][\A d \in (nextId + 1)..nextId' : status'[d] = "queued"]_vars

\* C25: a deployment whose status is error has a non-null error that has a
\* message and a step naming the failed stage.
C25_ErrorHasMessageAndStep ==
  \A d \in Deps :
    status[d] = "error" =>
      /\ ~error[d].isNull
      /\ "message" \in DOMAIN error[d]
      /\ "step" \in DOMAIN error[d]

\* fetch, install, build, verify / process the output, publish
AllStages == <<"fetch", "install", "build", "assets", "cdn">>

\* the invocation of processQueue that runs d is past the catch of
\* buildAndDeploy
PastCatch(d) == \A i \in 1..Len(chains) :
                  chains[i].dep = d => chains[i].pc \notin StagePcs \cup {"error1"}

\* C26: the stages of a run start in the order fetch, install, build, assets,
\* cdn, each one after the one before it has completed; once a stage has
\* thrown no later stage of the run is started and the catch sets status
\* error.
C26_StagesInOrder ==
  \A d \in Deps :
    LET r == stages[d]
    IN /\ IsPrefix(r.started, AllStages)
       /\ IsPrefix(r.done, r.started)
       /\ Len(r.started) <= Len(r.done) + 1
       /\ r.failed => Len(r.started) = Len(r.done) + 1
       /\ (r.failed /\ PastCatch(d)) => status[d] = "error"

\* a run whose build command failed after fetch and install had completed:
\* no later stage was started and the status is error
C26_Witness ==
  \E d \in Deps :
    /\ stages[d] = [started |-> <<"fetch", "install", "build">>,
                    done |-> <<"fetch", "install">>, failed |-> TRUE]
    /\ PastCatch(d)
    /\ status[d] = "error"
    /\ error[d] = ErrorOf(FailureMessage("build"))

\* C27: the status of a deployment becomes ready only once the five stages
\* of its run have completed and none has thrown; the write that sets ready
\* sets build_time, size and url as well; and no run in a working tree
\* without the output directory and without a root index file ends in ready.
C27_ReadyOnlyAfterAllStages ==
  [][\A d \in Deps :
       (status'[d] = "ready" /\ status[d] # "ready") =>
         /\ stages[d].done = AllStages /\ ~stages[d].failed
         /\ build_time[d] = NoSeconds /\ build_time'[d] # NoSeconds
         /\ size[d] = NoBytes /\ size'[d] # NoBytes
         /\ url[d] = NoUrl /\ url'[d] # NoUrl
         /\ tree.outdir \/ tree.index]_vars

\* a deployment is ready after its five stages, with its build time, the
\* bytes of the output directory as size and the url of its project
C27_Witness ==
  \E d \in Deps :
    /\ status[d] = "ready"
    /\ stages[d] = [started |-> AllStages, done |-> AllStages, failed |-> FALSE]
    /\ build_time[d] = Seconds
    /\ tree.outdir /\ size[d] = OutBytes
    /\ url[d] = SiteUrl(project_id[d])

\* no package.json, no build command, no output directory, a root index file
StaticSite ==
  ~tree.manifest /\ ~tree.command /\ ~tree.outdir /\ tree.index

\* d was run and its invocation of processQueue is past its writes
RunOver(d) ==
  /\ stages[d].started # <<>>
  /\ \A i \in 1..Len(chains) : chains[i].dep = d => chains[i].pc = "timer"

\* C28: in a working tree without package.json, build command and output
\* directory but with a root index file, a run skips install and build
\* without error and ends in ready with a size (the bytes it published).
C28_StaticSiteReachesReady ==
  \A d \in Deps :
    (StaticSite /\ RunOver(d)) =>
      /\ IsPrefix(<<"fetch", "install", "build">>, stages[d].done)
          \/ stages[d].done = <<>>
      /\ IsPrefix(<<"fetch">>, stages[d].done) =>
            status[d] = "ready" /\ size[d] # NoBytes

\* the lines emitBuildLog was given up to the start of the build command
LinesBeforeBuild == <<MsgFetch, MsgInstall, MsgBuild>>

\* C29: when the build command fails (after fetch and install completed),
\* the deployment ends with status error and error.step "build", the publish
\* stage is not run, and, every saveBuildLog task having read and written,
\* the persisted build log holds the lines emitted before the failure in
\* the order of their emission.
C29_BuildFailureReported ==
  \A d \in Deps :
    (/\ stages[d].failed /\ stages[d].done = <<"fetch", "install">>
     /\ RunOver(d)
     /\ savesDone = Len(LinesBeforeBuild) /\ saves = EmptyBag)
      => /\ status[d] = "error"
         /\ "step" \in DOMAIN error[d] /\ error[d].step = "build"
         /\ stages[d].started = <<"fetch", "install", "build">>
         /\ build_log[d] = LinesBeforeBuild

Hung(d) == \E i \in 1..Len(chains) : chains[i].dep = d /\ chains[i].pc = "hung"

\* C31: an install or build subprocess that never exits does not hang the
\* pipeline: the deployment of that run eventually has status error, and the
\* deployments queued or handed to the executor behind it eventually reach a
\* terminal status.
C31_HungSubprocessTimesOut ==
  \A d \in Deps :
    /\ Hung(d) ~> (status[d] = "error")
    /\ (status[d] \in {"queued", "building"}) ~> (status[d] \in Terminal)

\* the payload lacks a field its route reads: the repository, the ref of a
\* push, the author of a commit
Malformed(req) ==
  \/ req.url = Absent
  \/ \E i \in 1..Len(req.changes) :
       \/ req.changes[i].branch = Absent
       \/ \E k \in 1..Len(req.changes[i].commits) :
            req.changes[i].commits[k] = Unauthored

\* C32: a webhook request with a malformed payload is answered 400 and
\* creates no deployment, a Bitbucket push with well-formed earlier changes
\* included.
C32_MalformedPayloadRejected ==
  \A h \in Hooks :
    Malformed(h.req) =>
      /\ h.created = {}
      /\ h.pc = "done" => h.response = 400

\* the record of deployment d is the same before and after the step
SameRecord(d) ==
  /\ status'[d] = status[d]
  /\ error'[d] = error[d]
  /\ build_log'[d] = build_log[d]
  /\ commit_sha'[d] = commit_sha[d]
  /\ project_id'[d] = project_id[d]

\* deployment d has been handed to the executor
HandedOver(d) ==
  \/ \E k \in 1..Len(buildQueue) : buildQueue[k] = d
  \/ \E i \in 1..Len(chains) : chains[i].dep = d

\* C33: within one scan, when dispatching a deployment of the batch throws,
\* its status is set to error, the records of the other deployments stay as
\* they are, and the scan goes on with the rest of the batch: a row leaves
\* the batch only as its head, either handed to the executor or in status
\* error, and the scan ends only when no row of the batch is left.
C33_ThrowDoesNotHaltScan ==
  [][/\ (scanPc = "catch" /\ scanPc' # "catch") =>
          /\ status'[Head(batch)] = "error"
          /\ \A d \in Deps \ {Head(batch)} : SameRecord(d)
          /\ batch' = Tail(batch)
          /\ Tail(batch) # <<>> => (scanPc' = "claim" /\ queueIsProcessing')
     /\ (batch # <<>> /\ batch' # batch) =>
          /\ batch' = Tail(batch)
          /\ \E d \in Deps :
               /\ d = Head(batch)
               /\ (status'[d] = "error") \/ HandedOver(d)'
    ]_vars

\* a scan of three rows in which the dispatch of the first row threw, the row
\* is in status error and the two rows after it were handed to the executor
C33_Witness ==
  /\ scanPc = "idle"
  /\ status[1] = "error" /\ error[1] = ErrorOf(MsgNoProject)
  /\ HandedOver(2) /\ HandedOver(3)
  /\ status[2] = "building"

\* C34: a failing build is isolated. The step in which buildAndDeploy fails
\* changes no record and nothing of the scheduler; the two error updates that
\* follow (the catch of buildAndDeploy, the catch of processQueue) set the
\* status of that deployment to error, change no other record and nothing of
\* the scheduler, and lead to the one-second timer; when the timer fires on a
\* non-empty build queue, the executor shifts its head and starts that build.
C34_FailingBuildIsolated ==
  [][\A i \in 1..Len(chains) :
       LET c == chains[i]
       IN /\ (c.pc \in StagePcs /\ chains'[i].pc = "error1") =>
               /\ schedVars' = schedVars
               /\ \A d \in Deps : SameRecord(d)
          /\ (c.pc \in {"error1", "error2"} /\ chains'[i].pc # c.pc) =>
               /\ schedVars' = schedVars
               /\ status'[c.dep] = "error"
               /\ error'[c.dep] = ErrorOf(c.message)
               /\ \A d \in Deps \ {c.dep} : SameRecord(d)
               /\ chains'[i].pc = IF c.pc = "error1" THEN "error2" ELSE "timer"
          /\ (c.pc = "timer" /\ chains' # chains /\ buildQueue # <<>>) =>
               /\ chains'[i] = [dep |-> Head(buildQueue), pc |-> "status",
                                message |-> ""]
               /\ buildQueue' = Tail(buildQueue)
               /\ serviceIsProcessing'
    ]_vars

\* the build of deployment 1 failed at the build command, its status is
\* error, and the executor is running the build of deployment 2, which was
\* queued behind it
C34_Witness ==
  /\ status[1] = "error"
  /\ error[1] = ErrorOf(FailureMessage("build"))
  /\ \E i \in 1..Len(chains) : chains[i].dep = 2 /\ chains[i].pc = "install"
  /\ status[2] = "building"
  /\ scanPc # "catch"

\* C35: a scan whose query fails or returns no rows changes no deployment
\* record, and whenever no scan is running (after an empty result, a store
\* error, an exception or the last row of the batch) isProcessing is false,
\* so the next tick of the timer starts a scan.
C35_ScanAlwaysResetsFlag ==
  /\ [][(scanPc = "query" /\ scanPc' = "idle") =>
          /\ \A d \in Deps : SameRecord(d)
          /\ nextId' = nextId
          /\ ~queueIsProcessing']_vars
  /\ [](scanPc = "idle" => (~queueIsProcessing /\ ENABLED Tick))

\* no scan is running and the flag is false after a scan that claimed one
\* row and caught the exception of another, while a third row is queued for
\* the scan of the next tick
C35_Witness ==
  /\ scanPc = "idle" /\ ~queueIsProcessing
  /\ status[1] = "building" /\ status[2] = "error" /\ status[3] = "queued"
  /\ error[2] = ErrorOf(MsgNoProject)

\* the log line buildAndDeploy emits when it starts the stage pc
LineOf(pc) ==
  CASE pc = "fetch" -> MsgFetch
    [] pc = "install" -> MsgInstall
    [] pc = "build" -> MsgBuild
    [] pc = "assets" -> MsgAssets
    [] pc = "cdn" -> MsgCdn

\* the lines emitted for deployment d so far, in the order of their emission
Emitted(d) ==
  [k \in 1..Len(stages[d].started) |-> LineOf(stages[d].started[k])]

\* C36: once every saveBuildLog task started for the lines of a deployment
\* has read and written, the persisted build_log holds each emitted line
\* exactly once, in the order of emission.
C36_LogPersistedOnceInOrder ==
  \A d \in Deps :
    (/\ stages[d].started # <<>>
     /\ savesDone = Len(stages[d].started)
     /\ saves = EmptyBag)
      => build_log[d] = Emitted(d)

\* C37: restart safety: whether or not the process is restarted, no
\* deployment stays in status building for ever and none stays queued for
\* ever: a row in status building eventually has a terminal status and a
\* queued row is eventually claimed.
C37_RestartSafe ==
  \A d \in Deps :
    /\ [](status[d] = "building" => <>(status[d] \in Terminal))
    /\ [](status[d] = "queued" => <>(status[d] # "queued"))

\* C38: scans never overlap: at most one execution of
\* processQueuedDeployments is between setting isProcessing and resetting
\* it, however often the intervals fire and startProcessing and
\* stopProcessing are called; at most one interval is armed, it is the one
\* processingInterval holds, and after stopProcessing none is.
C38_ScansNeverOverlap ==
  /\ Len(runs) <= 1
  /\ queueIsProcessing <=> runs # <<>>
  /\ Cardinality(timers) <= 1
  /\ timers = IF processingInterval = NoTimer THEN {} ELSE {processingInterval}

\* a scan is at its second row while startProcessing has replaced the first
\* interval by another one, which fires without starting a scan
C38_Witness ==
  /\ Len(runs) = 1 /\ runs[1].pc = "claim" /\ runs[1].batch = <<2>>
  /\ timers = {2} /\ processingInterval = 2
  /\ queueIsProcessing

\* C39: the executor runs builds one at a time, whatever the projects: at
\* most one invocation of processQueue exists and so at most one
\* buildAndDeploy is in progress, and isProcessing is true as long as that
\* invocation exists (the one-second gap before the next processQueue call
\* included) or an entry waits in buildQueue.
C39_OneBuildAtATime ==
  /\ Cardinality({i \in 1..Len(chains) : InBuild(chains[i])}) <= 1
  /\ Len(chains) <= 1
  /\ (chains # <<>> \/ buildQueue # <<>>) => serviceIsProcessing

\* the one-second gap after the build of a deployment of one project, while
\* a deployment of the other project waits in buildQueue
C39_Witness ==
  /\ Len(chains) = 1 /\ chains[1].pc = "timer"
  /\ Len(buildQueue) = 1
  /\ project_id[chains[1].dep] # project_id[buildQueue[1]]
  /\ serviceIsProcessing

\* C40: with the DeploymentService whose later processQueue definition is in
\* effect, every entry pushed onto buildQueue is eventually shifted and
\* built, and isProcessing does not stay true while no build is running.
C40_EveryEntryBuilt ==
  /\ \A d \in Deps : (Occurrences(buildQueue, d) > 0) ~> (Running(d) > 0)
  /\ (serviceIsProcessing /\ chains = <<>>) ~> ~serviceIsProcessing

====
